---- MODULE Spec2Model ----
(***************************************************************************)
(* Model of butlermatt/dslink: the crypto package (elliptic-curve key      *)
(* handling, shared secret, salted hash) and the conn package (httpClient: *)
(* Codec registration and the Dial handshake).                             *)
(*                                                                         *)
(* Scaling.  The code fixes the curve to elliptic.P256().  The model keeps *)
(* every formula of the curve arithmetic and of the encodings but runs     *)
(* them on a curve of the same shape (y^2 = x^3 - 3x + b over a prime      *)
(* field, prime group order, cofactor 1) that is small enough to           *)
(* enumerate: p = 11, b = 10, order 7, one byte per coordinate.            *)
(* SHA-256 is modelled as an injective function (a digest is the term      *)
(* [sha256 |-> input]); a string that ends in the base64 text of a digest  *)
(* is the record [pre |-> leading characters, sum |-> digest].             *)
(***************************************************************************)
EXTENDS Integers, Sequences, FiniteSets, TLC

(***************************************************************************)
(* Bytes, big integers, base64                                             *)
(***************************************************************************)

\* A nil *big.Int.
NilInt == -1

\* The characters of a text: 0..63 are the 64 characters of the base64url
\* alphabet (by their 6-bit value), SP is the space character and BadChar a
\* character outside the alphabet.
SP == 64
BadChar == 65

RECURSIVE SetBytes(_)
\* big.Int.SetBytes: the big-endian value of a byte string.
SetBytes(bs) ==
    IF bs = <<>> THEN 0
    ELSE SetBytes(SubSeq(bs, 1, Len(bs) - 1)) * 256 + bs[Len(bs)]

RECURSIVE BigBytes(_)
\* big.Int.Bytes: the minimal big-endian byte string (empty for zero).
BigBytes(x) ==
    IF x = 0 THEN <<>> ELSE Append(BigBytes(x \div 256), x % 256)

RECURSIVE FixedBytes(_, _)
\* The big-endian byte string of x on exactly n bytes (elliptic.Marshal).
FixedBytes(x, n) ==
    IF n = 0 THEN <<>> ELSE Append(FixedBytes(x \div 256, n - 1), x % 256)

RECURSIVE EncodeToString(_)
\* base64.RawURLEncoding.EncodeToString: 3 bytes give 4 characters, a
\* remainder of 1 byte gives 2 characters, of 2 bytes 3 characters; no
\* padding.
EncodeToString(bs) ==
    IF Len(bs) = 0 THEN <<>>
    ELSE IF Len(bs) = 1 THEN
        << bs[1] \div 4, (bs[1] % 4) * 16 >>
    ELSE IF Len(bs) = 2 THEN
        << bs[1] \div 4, (bs[1] % 4) * 16 + bs[2] \div 16, (bs[2] % 16) * 4 >>
    ELSE
        << bs[1] \div 4, (bs[1] % 4) * 16 + bs[2] \div 16,
           (bs[2] % 16) * 4 + bs[3] \div 64, bs[3] % 64 >>
        \o EncodeToString(SubSeq(bs, 4, Len(bs)))

RECURSIVE DecodeQuanta(_)
\* The bytes of a text made of alphabet characters only, whose length is
\* not 1 modulo 4 (trailing bits are dropped: the encoding is not strict).
DecodeQuanta(s) ==
    IF Len(s) = 0 THEN <<>>
    ELSE IF Len(s) = 2 THEN
        << s[1] * 4 + s[2] \div 16 >>
    ELSE IF Len(s) = 3 THEN
        << s[1] * 4 + s[2] \div 16, (s[2] % 16) * 16 + s[3] \div 4 >>
    ELSE
        << s[1] * 4 + s[2] \div 16, (s[2] % 16) * 16 + s[3] \div 4,
           (s[3] % 4) * 64 + s[4] >>
        \o DecodeQuanta(SubSeq(s, 5, Len(s)))

\* base64.RawURLEncoding.DecodeString: a character outside the alphabet or
\* a dangling single character is a CorruptInputError.
DecodeString(s) ==
    IF (\E i \in 1..Len(s) : s[i] \notin 0..63) \/ Len(s) % 4 = 1
    THEN [val |-> <<>>, err |-> "CorruptInputError"]
    ELSE [val |-> DecodeQuanta(s), err |-> "nil"]

RECURSIVE Split(_)
\* strings.Split(str, " "): the fields between spaces (always at least one).
Split(str) ==
    IF \A i \in 1..Len(str) : str[i] # SP THEN << str >>
    ELSE LET i == CHOOSE j \in 1..Len(str) :
                      str[j] = SP /\ \A k \in 1..(j - 1) : str[k] # SP
         IN << SubSeq(str, 1, i - 1) >> \o Split(SubSeq(str, i + 1, Len(str)))

(***************************************************************************)
(* The curve                                                               *)
(***************************************************************************)

\* elliptic.P256(), scaled: y^2 = x^3 + A*x + B over GF(P) with A = -3,
\* base point (Gx, Gy) of prime order N; BitSize is the size of P and of N.
Curve == [Name |-> "P-256", P |-> 11, A |-> 8, B |-> 10,
          Gx |-> 2, Gy |-> 1, N |-> 7, BitSize |-> 4, NBits |-> 3]

\* The coordinates' byte length, (BitSize + 7) >> 3.
ByteLen == (Curve.BitSize + 7) \div 8

\* The affine pair crypto/elliptic returns for the point at infinity.
Infinity == [X |-> 0, Y |-> 0]

\* Curve.IsOnCurve.
IsOnCurve(x, y) ==
    (y * y) % Curve.P = (x * x * x + Curve.A * x + Curve.B) % Curve.P

\* The inverse of v modulo P (v not a multiple of P).
ModInverse(v) == CHOOSE i \in 1..(Curve.P - 1) : (i * (v % Curve.P)) % Curve.P = 1

\* Curve.Add / Curve.Double on affine pairs, (0,0) standing for infinity.
PointAdd(p1, p2) ==
    IF p1 = Infinity THEN p2
    ELSE IF p2 = Infinity THEN p1
    ELSE IF p1.X = p2.X /\ (p1.Y + p2.Y) % Curve.P = 0 THEN Infinity
    ELSE LET l == IF p1 = p2
                  THEN ((3 * p1.X * p1.X + Curve.A) * ModInverse(2 * p1.Y)) % Curve.P
                  ELSE ((p2.Y + Curve.P - p1.Y)
                        * ModInverse(p2.X + Curve.P - p1.X)) % Curve.P
             x == (l * l + 2 * Curve.P - p1.X - p2.X) % Curve.P
         IN [X |-> x, Y |-> (l * (p1.X + Curve.P - x) + Curve.P - p1.Y) % Curve.P]

RECURSIVE PointMul(_, _)
\* k times the point pt, by doubling and adding over the bits of k.
PointMul(pt, k) ==
    IF k = 0 THEN Infinity
    ELSE LET h == PointMul(pt, k \div 2)
             d == PointAdd(h, h)
         IN IF k % 2 = 1 THEN PointAdd(d, pt) ELSE d

\* Curve.ScalarMult(Bx, By, k) for a scalar given as big-endian bytes.
ScalarMult(pt, k) == PointMul(pt, SetBytes(k))

\* Curve.ScalarBaseMult(k).
ScalarBaseMult(k) == ScalarMult([X |-> Curve.Gx, Y |-> Curve.Gy], k)

\* elliptic.Marshal: the uncompressed form 4 || X || Y.
EllipticMarshal(x, y) == <<4>> \o FixedBytes(x, ByteLen) \o FixedBytes(y, ByteLen)

\* A variant of elliptic.Unmarshal that takes the coordinates as they come,
\* without looking whether they are below P and on the curve.
EllipticUnmarshalUnchecked(data) ==
    IF Len(data) # 1 + 2 * ByteLen \/ data[1] # 4
    THEN [X |-> NilInt, Y |-> NilInt]
    ELSE [X |-> SetBytes(SubSeq(data, 2, 1 + ByteLen)),
          Y |-> SetBytes(SubSeq(data, 2 + ByteLen, 1 + 2 * ByteLen))]

\* elliptic.Unmarshal: (nil, nil) unless the bytes are the uncompressed
\* form of a point of the curve.
EllipticUnmarshal(data) ==
    IF Len(data) # 1 + 2 * ByteLen \/ data[1] # 4
    THEN [X |-> NilInt, Y |-> NilInt]
    ELSE LET x == SetBytes(SubSeq(data, 2, 1 + ByteLen))
             y == SetBytes(SubSeq(data, 2 + ByteLen, 1 + 2 * ByteLen))
         IN IF x >= Curve.P \/ y >= Curve.P \/ ~IsOnCurve(x, y)
            THEN [X |-> NilInt, Y |-> NilInt]
            ELSE [X |-> x, Y |-> y]

(***************************************************************************)
(* package crypto                                                          *)
(***************************************************************************)

\* The zero values of PublicKey and PrivateKey (nil curve, nil coordinates,
\* nil scalar).
ZeroPublicKey == [Curve |-> "nil", X |-> NilInt, Y |-> NilInt]
ZeroPrivateKey == [PublicKey |-> ZeroPublicKey, D |-> <<>>]

\* sha256.Sum256, an injective function of its input.
Sha256(raw) == [sha256 |-> raw]

\* PublicKey.marshal.
marshal(p) == EllipticMarshal(p.X, p.Y)

\* PublicKey.Base64.
Base64(p) == EncodeToString(marshal(p))

\* PublicKey.Hash64: the base64 text of the digest of the marshalled point.
Hash64(p) == [pre |-> <<>>, sum |-> Sha256(marshal(p))]

\* PublicKey.DsId: the prefix followed by Hash64.
\* A variant of DsId that hashes the prefix in place of the public key.
DsIdOfPrefix(p, prefix) == [pre |-> prefix, sum |-> Sha256(prefix)]

DsId(p, prefix) == [pre |-> prefix \o Hash64(p).pre, sum |-> Hash64(p).sum]

\* The characters that follow the digest text in a text that holds one.
Post(t) == IF "post" \in DOMAIN t THEN t.post ELSE <<>>

\* String concatenation, of a text that holds a digest text and characters.
Concat(t, chars) == [pre |-> t.pre, sum |-> t.sum, post |-> Post(t) \o chars]

\* strings.HasSuffix(t, h) for a text t that holds a digest text and a
\* digest text h.  Digest texts have one length, so a text that ends with
\* its digest text ends with h exactly when the two digests are equal.  The
\* last character of a digest text carries the last four bits of the 256,
\* its value is a multiple of 4: a text that ends with another character,
\* as every text of the model with characters behind its digest text does,
\* does not end with h.
HasSuffix(t, h) == Post(t) = <<>> /\ t.sum = h.sum

\* A variant of VerifyDsId that looks for the hash at the start of the dsid.
VerifyDsIdPrefix(p, dsid) == dsid.pre = <<>> /\ dsid.sum = Hash64(p).sum

\* PublicKey.VerifyDsId: the dsid ends with Hash64.
VerifyDsId(p, dsid) == HasSuffix(dsid, Hash64(p))

\* mask[bitSize%8] of elliptic.GenerateKey, as a modulus: the first byte
\* keeps its low bitSize%8 bits (all 8 when bitSize is a multiple of 8).
Mask(bitSize) == IF bitSize % 8 = 0 THEN 256 ELSE 2 ^ (bitSize % 8)

RECURSIVE EllipticGenerateKey(_)
\* elliptic.GenerateKey.  rand is the sequence of blocks the reader yields
\* to successive io.ReadFull calls; an exhausted reader is an error.  The
\* excess bits of the first byte are masked off and a scalar that is not
\* below N is sampled again.
EllipticGenerateKey(rand) ==
    IF rand = <<>> THEN [priv |-> <<>>, X |-> NilInt, Y |-> NilInt, err |-> "EOF"]
    ELSE LET blk  == Head(rand)
             priv == [blk EXCEPT ![1] = @ % Mask(Curve.NBits)]
         IN IF SetBytes(priv) >= Curve.N THEN EllipticGenerateKey(Tail(rand))
            ELSE LET pt == ScalarBaseMult(priv)
                 IN [priv |-> priv, X |-> pt.X, Y |-> pt.Y, err |-> "nil"]

\* ellipticECDH.GenerateKey.
GenerateKey(rand) ==
    LET r == EllipticGenerateKey(rand)
    IN IF r.err # "nil" THEN [val |-> ZeroPrivateKey, err |-> r.err]
       ELSE [val |-> [PublicKey |-> [Curve |-> Curve.Name, X |-> r.X, Y |-> r.Y],
                      D |-> r.priv],
             err |-> "nil"]

\* A variant of Marshal that writes the point before the scalar.
MarshalSwapped(priv) ==
    [val |-> Base64(priv.PublicKey) \o <<SP>> \o EncodeToString(priv.D),
     err |-> "nil"]

\* ellipticECDH.Marshal: base64(scalar), a space, base64(point).
Marshal(priv) ==
    [val |-> EncodeToString(priv.D) \o <<SP>> \o Base64(priv.PublicKey),
     err |-> "nil"]

\* ellipticECDH.UnmarshalPublic.
UnmarshalPublic(str) ==
    LET data == DecodeString(str)
    IN IF data.err # "nil" THEN [val |-> ZeroPublicKey, err |-> data.err]
       ELSE LET xy == EllipticUnmarshal(data.val)
            IN IF xy.X = NilInt \/ xy.Y = NilInt
               THEN [val |-> ZeroPublicKey, err |-> "unmashaled values are nil"]
               ELSE [val |-> [Curve |-> Curve.Name, X |-> xy.X, Y |-> xy.Y],
                     err |-> "nil"]

\* A variant of Unmarshal that stores the scalar in the key it returns
\* before it decodes the point.
UnmarshalPartial(str) ==
    LET keys == Split(str)
        d    == DecodeString(keys[1])
    IN IF d.err # "nil" THEN [val |-> ZeroPrivateKey, err |-> d.err]
       ELSE IF Len(keys) = 2 THEN
            LET pub == UnmarshalPublic(keys[2])
            IN [val |-> [PublicKey |-> [Curve |-> pub.val.Curve,
                                        X |-> pub.val.X, Y |-> pub.val.Y],
                         D |-> d.val],
                err |-> pub.err]
       ELSE IF Len(keys) = 1 THEN
            LET pt == ScalarBaseMult(d.val)
            IN [val |-> [PublicKey |-> [Curve |-> Curve.Name, X |-> pt.X, Y |-> pt.Y],
                         D |-> d.val],
                err |-> "nil"]
       ELSE [val |-> ZeroPrivateKey, err |-> "too many sections to unmarshal."]

\* ellipticECDH.Unmarshal: the first field is decoded before the number of
\* fields is looked at; with two fields the public key is the decoded
\* second field, with one field it is derived from the scalar.
Unmarshal(str) ==
    LET keys == Split(str)
        d    == DecodeString(keys[1])
    IN IF d.err # "nil" THEN [val |-> ZeroPrivateKey, err |-> d.err]
       ELSE IF Len(keys) = 2 THEN
            LET pub == UnmarshalPublic(keys[2])
            IN IF pub.err # "nil" THEN [val |-> ZeroPrivateKey, err |-> pub.err]
               ELSE [val |-> [PublicKey |-> [Curve |-> pub.val.Curve,
                                             X |-> pub.val.X, Y |-> pub.val.Y],
                              D |-> d.val],
                     err |-> "nil"]
       ELSE IF Len(keys) = 1 THEN
            LET pt == ScalarBaseMult(d.val)
            IN [val |-> [PublicKey |-> [Curve |-> Curve.Name, X |-> pt.X, Y |-> pt.Y],
                         D |-> d.val],
                err |-> "nil"]
       ELSE [val |-> ZeroPrivateKey, err |-> "too many sections to unmarshal."]

\* ellipticECDH.GenerateSharedSecret: the bytes of the X coordinate of
\* priv.D times pub.
GenerateSharedSecret(priv, pub) ==
    BigBytes(ScalarMult([X |-> pub.X, Y |-> pub.Y], priv.D).X)

\* A variant of HashSalt that hashes the secret first.
HashSaltReversed(salt, sec) == [pre |-> <<>>, sum |-> Sha256(sec \o salt)]

\* ellipticECDH.HashSalt: base64(sha256(salt || sec)).
HashSalt(salt, sec) == [pre |-> <<>>, sum |-> Sha256(salt \o sec)]

\* ellipticECDH.HashToken: base64(sha256(dsId + token)).
HashToken(dsId, token) ==
    [pre |-> <<>>, sum |-> Sha256([pre |-> dsId.pre, sum |-> dsId.sum, post |-> token])]

\* The file LoadKey and SaveKey use when the path given is empty.
defaultKeyFile == ".dslink.key"

\* LoadKey on the files of a file system (a function from paths to the
\* texts of the files): a file that cannot be read is an error, the text
\* of one that can goes to Unmarshal whatever it is.
LoadKey(files, path) ==
    LET p == IF path = "" THEN defaultKeyFile ELSE path
    IN IF p \notin DOMAIN files
       THEN [val |-> ZeroPrivateKey, err |-> "Unable to read file"]
       ELSE Unmarshal(files[p])

\* ioutil.WriteFile(p, text, 0644) on the files of a file system.  What
\* the operating system does is the outcome: "open" when the file cannot
\* be opened for writing (nothing is touched), "ok" when the text is
\* written, and "write" when the file has been opened, which truncates it,
\* and the write fails after n characters.
WriteFile(files, p, text, outcome) ==
    IF outcome.kind = "open" THEN [files |-> files, err |-> "open error"]
    ELSE IF outcome.kind = "ok" THEN [files |-> (p :> text) @@ files, err |-> "nil"]
    ELSE [files |-> (p :> SubSeq(text, 1, outcome.n)) @@ files, err |-> "write error"]

\* SaveKey: the Marshal text of the key goes to the file of the path, the
\* default key file when the path is empty.
SaveKey(files, key, path, outcome) ==
    LET p == IF path = "" THEN defaultKeyFile ELSE path
        m == Marshal(key)
    IN IF m.err # "nil" THEN [files |-> files, err |-> m.err]
       ELSE WriteFile(files, p, m.val, outcome)

(***************************************************************************)
(* package conn: encoders, configuration, URLs                             *)
(***************************************************************************)

\* The message types of codecs.go.
Text == 1
Binary == 2

\* The two encoders of codecs.go, an encoder of the caller's that also
\* calls itself "json", and the nil *Encoder.
JsonCodec == [Format |-> "json", MsgType |-> Text, id |-> "JsonCodec"]
MsgpCodec == [Format |-> "msgpack", MsgType |-> Binary, id |-> "MsgpCodec"]
UserCodec == [Format |-> "json", MsgType |-> Binary, id |-> "UserCodec"]
NilEncoder == [Format |-> "", MsgType |-> 0, id |-> "nil"]
Encoders == {JsonCodec, MsgpCodec, UserCodec}

\* The length a configured token is cut to.
TokenLen == 16

\* The keys of the query parameters the client uses, in the order in which
\* url.Values.Encode emits them (sorted).
QueryKeys == <<"auth", "dsId", "encoder", "format", "token">>

\* A parsed url.URL: scheme, host, path and the raw query, which is the
\* sequence of its key=value pairs.  A nil *url.URL and the raw text of a
\* URI that url.Parse rejects are told by the field ok.
NilUrl == [Scheme |-> "", Host |-> "", Path |-> "", RawQuery |-> <<>>, ok |-> FALSE]

\* url.Parse: the parts of the raw text, or an error.
UrlParse(raw) ==
    IF raw.ok THEN [val |-> raw, err |-> "nil"]
    ELSE [val |-> NilUrl, err |-> "parse error"]

\* url.Values.Add on a raw query kept as its pairs, followed by
\* url.Values.Encode: the pairs come out sorted by key, the values of one
\* key in the order they were added.
QueryAdd(q, key, value) == Append(q, [k |-> key, v |-> value])

RECURSIVE QueryEncodeFrom(_, _)
QueryEncodeFrom(q, i) ==
    IF i > Len(QueryKeys) THEN <<>>
    ELSE SelectSeq(q, LAMBDA e : e.k = QueryKeys[i]) \o QueryEncodeFrom(q, i + 1)

QueryEncode(q) == QueryEncodeFrom(q, 1)

\* The values a raw query carries for a key.
QueryGet(q, key) == SelectSeq(q, LAMBDA e : e.k = key)

\* A *crypto.PrivateKey is [isNil, at, v]: the address it holds (0 for nil)
\* and the key at that address.
NilKey == [isNil |-> TRUE, at |-> 0, v |-> ZeroPrivateKey]

\* A variant of the zero conf that is a responder from the start.
ZeroConfResponder == [isReq |-> FALSE, isResp |-> TRUE, broker |-> NilUrl,
                      name |-> <<>>, token |-> <<>>, key |-> NilKey]

\* The zero conf.
ZeroConf == [isReq |-> FALSE, isResp |-> FALSE, broker |-> NilUrl,
             name |-> <<>>, token |-> <<>>, key |-> NilKey]

\* The options of configs.go as values: the function and its argument.
IsRequesterOpt == [opt |-> "IsRequester", uri |-> NilUrl, text |-> <<>>, key |-> NilKey]
IsResponderOpt == [opt |-> "IsResponder", uri |-> NilUrl, text |-> <<>>, key |-> NilKey]
BrokerOpt(brokerUri) == [opt |-> "Broker", uri |-> brokerUri, text |-> <<>>, key |-> NilKey]
NameOpt(name) == [opt |-> "Name", uri |-> NilUrl, text |-> name, key |-> NilKey]
TokenOpt(token) == [opt |-> "Token", uri |-> NilUrl, text |-> token, key |-> NilKey]
KeyOpt(key) == [opt |-> "Key", uri |-> NilUrl, text |-> <<>>, key |-> key]

\* A variant of ApplyOpt in which a key, once set, is not set again.
ApplyOptKeepKey(o, c) ==
    IF o.opt = "IsRequester" THEN [c EXCEPT !.isReq = TRUE]
    ELSE IF o.opt = "IsResponder" THEN [c EXCEPT !.isResp = TRUE]
    ELSE IF o.opt = "Broker" THEN [c EXCEPT !.broker = UrlParse(o.uri).val]
    ELSE IF o.opt = "Name" THEN [c EXCEPT !.name = o.text]
    ELSE IF o.opt = "Token" THEN [c EXCEPT !.token = o.text]
    ELSE IF c.key.isNil THEN [c EXCEPT !.key = o.key]
    ELSE c

\* opt(c): what an option does to the conf.  Broker keeps the URL of
\* url.Parse and drops its error, so a URI that does not parse leaves a
\* nil broker.
ApplyOpt(o, c) ==
    IF o.opt = "IsRequester" THEN [c EXCEPT !.isReq = TRUE]
    ELSE IF o.opt = "IsResponder" THEN [c EXCEPT !.isResp = TRUE]
    ELSE IF o.opt = "Broker" THEN [c EXCEPT !.broker = UrlParse(o.uri).val]
    ELSE IF o.opt = "Name" THEN [c EXCEPT !.name = o.text]
    ELSE IF o.opt = "Token" THEN [c EXCEPT !.token = o.text]
    ELSE [c EXCEPT !.key = o.key]

RECURSIVE ApplyOpts(_, _)
\* The loop of NewHttpClient over its options, in the order given.
ApplyOpts(opts, c) ==
    IF opts = <<>> THEN c
    ELSE ApplyOpts(Tail(opts), ApplyOpt(Head(opts), c))

\* A variant of NewHttpClient that keeps a token only when it is longer
\* than TokenLen.
NewHttpClientLonger(c) ==
    IF ~c.broker.ok THEN [val |-> "nil", panic |-> "cannot create httpClient without broker address"]
    ELSE IF c.name = <<>> THEN [val |-> "nil", panic |-> "cannot create httpClient without link name"]
    ELSE IF c.key.isNil THEN [val |-> "nil", panic |-> "cannot create httpClient without a private key"]
    ELSE LET dsId == DsId(c.key.v.PublicKey, c.name)
             tok  == IF Len(c.token) > TokenLen THEN SubSeq(c.token, 1, TokenLen) ELSE <<>>
         IN [val |-> [responder |-> c.isResp,
                      requester |-> c.isReq,
                      token     |-> tok,
                      tHash     |-> IF Len(c.token) > TokenLen
                                    THEN << HashToken(dsId, tok) >>
                                    ELSE <<>>,
                      rawUrl    |-> c.broker,
                      privKey   |-> c.key,
                      dsId      |-> dsId,
                      encoder   |-> NilEncoder,
                      wsClient  |-> 0,
                      codecs    |-> {}],
             panic |-> "nil"]

\* NewHttpClient: panics without broker, name or key; a token of at least
\* TokenLen characters is cut to TokenLen and hashed with the dsId, a
\* shorter one is dropped.  The key of a configuration is a pointer
\* [isNil, at, v]; the token hash is the empty text <<>> or the one-element
\* text << hash >>; a transport handle is a positive number, nil is 0.
NewHttpClient(c) ==
    IF ~c.broker.ok THEN [val |-> "nil", panic |-> "cannot create httpClient without broker address"]
    ELSE IF c.name = <<>> THEN [val |-> "nil", panic |-> "cannot create httpClient without link name"]
    ELSE IF c.key.isNil THEN [val |-> "nil", panic |-> "cannot create httpClient without a private key"]
    ELSE LET dsId == DsId(c.key.v.PublicKey, c.name)
             tok  == IF Len(c.token) >= TokenLen THEN SubSeq(c.token, 1, TokenLen) ELSE <<>>
         IN [val |-> [responder |-> c.isResp,
                      requester |-> c.isReq,
                      token     |-> tok,
                      tHash     |-> IF Len(c.token) >= TokenLen
                                    THEN << HashToken(dsId, tok) >>
                                    ELSE <<>>,
                      rawUrl    |-> c.broker,
                      privKey   |-> c.key,
                      dsId      |-> dsId,
                      encoder   |-> NilEncoder,
                      wsClient  |-> 0,
                      codecs    |-> {}],
             panic |-> "nil"]

\* The raw text "" as a URI: url.Parse accepts it and yields an empty URL.
EmptyUri == [Scheme |-> "", Host |-> "", Path |-> "", RawQuery |-> <<>>, ok |-> TRUE]

\* The zero dsResp.
ZeroDsResp == [Id |-> "", PublicKey |-> "", WsUri |-> EmptyUri, HttpUri |-> "",
               Version |-> "", TempKey |-> <<>>, Salt |-> <<>>, SaltS |-> "",
               SaltL |-> "", Path |-> "", Format |-> ""]

\* json.Unmarshal into a dsResp.  A body is unreadable (ReadAll fails), not
\* JSON, or a JSON object given by the set of keys it has and their
\* values; a key the object lacks leaves the field at its zero value.
JsonUnmarshal(b) ==
    IF b.kind # "json" THEN [val |-> ZeroDsResp, err |-> "json error"]
    ELSE [val |-> [ZeroDsResp EXCEPT
                     !.WsUri   = IF "wsUri" \in b.keys THEN b.wsUri ELSE @,
                     !.TempKey = IF "tempKey" \in b.keys THEN b.tempKey ELSE @,
                     !.Salt    = IF "salt" \in b.keys THEN b.salt ELSE @,
                     !.Format  = IF "format" \in b.keys THEN b.format ELSE @],
          err |-> "nil"]

(***************************************************************************)
(* httpClient.Dial, in the segments between its two blocking network calls *)
(* (htClient.Post and websocket.DefaultDialer.Dial).  Each segment returns *)
(* the client it leaves, the error it returns ("nil" for none) and the     *)
(* events it went through, in order:                                       *)
(*   post      the handshake POST is issued                                *)
(*   response  the POST returned a response (its body is open)             *)
(*   parsed    the body was read and decoded into a dsResp                 *)
(*   close     the response body is closed (deferred in getWsConfig)       *)
(*   encoder   the chosen format was found among the codecs                *)
(*   tempKey   the ephemeral public key was decoded                        *)
(*   auth      the auth token was computed                                 *)
(*   uri       the upgrade URI was parsed                                  *)
(*   wsDial    the websocket dial is issued                                *)
(*   open      the websocket dial returned a connection                    *)
(*   error     a step failed                                               *)
(***************************************************************************)

\* A variant of getWsConfigRequest that adds the parameters to the query
\* of a URL that has the dsId already.
getWsConfigRequestTwice(c) ==
    LET q0 == QueryAdd(c.rawUrl.RawQuery, "dsId", c.dsId)
        q1 == QueryAdd(q0, "dsId", c.dsId)
        q2 == IF c.tHash # <<>>
              THEN QueryAdd(q1, "token", [pre |-> c.token, sum |-> c.tHash[1].sum])
              ELSE q1
    IN [url  |-> [c.rawUrl EXCEPT !.RawQuery = QueryEncode(q2)],
        body |-> [publicKey   |-> Base64(c.privKey.v.PublicKey),
                  isRequester |-> c.requester,
                  isResponder |-> c.responder,
                  version     |-> "1.1.2",
                  formats     |-> {e.Format : e \in c.codecs}]]

\* The handshake request of getWsConfig: the broker URL with dsId and token
\* added to its query, and the JSON body.
getWsConfigRequest(c) ==
    LET q1 == QueryAdd(c.rawUrl.RawQuery, "dsId", c.dsId)
        q2 == IF c.tHash # <<>>
              THEN QueryAdd(q1, "token", [pre |-> c.token, sum |-> c.tHash[1].sum])
              ELSE q1
    IN [url  |-> [c.rawUrl EXCEPT !.RawQuery = QueryEncode(q2)],
        body |-> [publicKey   |-> Base64(c.privKey.v.PublicKey),
                  isRequester |-> c.requester,
                  isResponder |-> c.responder,
                  version     |-> "1.1.2",
                  formats     |-> {e.Format : e \in c.codecs}]]

NoRequest == [url |-> NilUrl,
              body |-> [publicKey |-> <<>>, isRequester |-> FALSE,
                        isResponder |-> FALSE, version |-> "", formats |-> {}]]

\* A variant of DialBegin without the check of the codecs.
DialBeginUnchecked(c) ==
    [cl |-> c, err |-> "nil", events |-> <<"post">>, req |-> getWsConfigRequest(c)]

\* Dial up to the POST: without codecs it returns an error at once,
\* otherwise getWsConfig builds the request and posts it.
DialBegin(c) ==
    IF Cardinality(c.codecs) <= 0
    THEN [cl |-> c, err |-> "no codecs to connect to remote server with",
          events |-> <<>>, req |-> NoRequest]
    ELSE [cl |-> c, err |-> "nil", events |-> <<"post">>,
          req |-> getWsConfigRequest(c)]

\* A variant of getWsConfigPostError that posts again.
getWsConfigPostRetry(c) ==
    [cl |-> c, err |-> "nil", events |-> <<"error", "post">>]

\* getWsConfig when Post returns an error.
getWsConfigPostError(c) ==
    [cl |-> c, err |-> "Error connecting to address", events |-> <<"error">>]

\* A variant of getWsConfig that closes the body only before its last
\* return.
getWsConfigLateClose(b) ==
    IF b.kind = "unreadable"
    THEN [val |-> ZeroDsResp, err |-> "Unable to read response",
          events |-> <<"response", "error">>]
    ELSE IF JsonUnmarshal(b).err # "nil"
    THEN [val |-> ZeroDsResp, err |-> "Unable to decode response",
          events |-> <<"response", "error">>]
    ELSE [val |-> JsonUnmarshal(b).val, err |-> "nil",
          events |-> <<"response", "parsed", "close">>]

\* getWsConfig after Post returned a response with body b: the body is
\* read and decoded; it is closed when getWsConfig returns, whatever it
\* returns.
getWsConfig(b) ==
    IF b.kind = "unreadable"
    THEN [val |-> ZeroDsResp, err |-> "Unable to read response",
          events |-> <<"response", "error", "close">>]
    ELSE LET dr == JsonUnmarshal(b)
         IN IF dr.err # "nil"
            THEN [val |-> ZeroDsResp, err |-> "Unable to decode response",
                  events |-> <<"response", "error", "close">>]
            ELSE [val |-> dr.val, err |-> "nil",
                  events |-> <<"response", "parsed", "close">>]

\* A variant of CodecOf that marks the encoder it finds as a text encoder.
CodecOfRetyped(c, format) ==
    [(CHOOSE e \in c.codecs : e.Format = format) EXCEPT !.MsgType = Text]

\* The encoder registered under a format name.
CodecOf(c, format) == CHOOSE e \in c.codecs : e.Format = format

\* A variant of connectWsUrl that adds the token parameter whether or not
\* the client has a token hash.
connectWsUrlAnyToken(c, u, auth) ==
    LET q1 == QueryAdd(u.RawQuery, "auth", auth)
        q2 == QueryAdd(q1, "encoder", c.encoder.Format)
        q3 == QueryAdd(q2, "dsId", c.dsId)
        q4 == QueryAdd(q3, "token", [pre |-> c.token, sum |-> HashToken(c.dsId, c.token).sum])
    IN [u EXCEPT !.RawQuery = QueryEncode(q4), !.Scheme = "ws"]

\* The upgrade URL of connectWs: the parsed wsUri with auth, encoder, dsId
\* and (with a token hash) token added to its query, and the scheme ws.
connectWsUrl(c, u, auth) ==
    LET q1 == QueryAdd(u.RawQuery, "auth", auth)
        q2 == QueryAdd(q1, "encoder", c.encoder.Format)
        q3 == QueryAdd(q2, "dsId", c.dsId)
        q4 == IF c.tHash # <<>>
              THEN QueryAdd(q3, "token", [pre |-> c.token, sum |-> c.tHash[1].sum])
              ELSE q3
    IN [u EXCEPT !.RawQuery = QueryEncode(q4), !.Scheme = "ws"]

\* A variant of connectWsUpgrade that goes on with an empty secret when
\* the server key does not decode.
connectWsUpgradeUnchecked(c, conf) ==
    LET pubKey == UnmarshalPublic(conf.TempKey)
        shared == IF pubKey.err # "nil" THEN <<>>
                  ELSE GenerateSharedSecret(c.privKey.v, pubKey.val)
        auth   == HashSalt(conf.Salt, shared)
        u      == UrlParse(conf.WsUri)
    IN IF u.err # "nil"
       THEN [cl |-> c, err |-> "unable to parse websocket url",
             events |-> <<"encoder", "auth", "error">>, u |-> NilUrl]
       ELSE [cl |-> c, err |-> "nil",
             events |-> <<"encoder", "auth", "uri", "wsDial">>,
             u |-> connectWsUrl(c, u.val, auth)]

\* connectWs once the encoder is set, up to the websocket dial: the server
\* key is decoded, the auth token derived from it and the salt, the wsUri
\* parsed and the upgrade URL dialled.
connectWsUpgrade(c, conf) ==
    LET pubKey == UnmarshalPublic(conf.TempKey)
    IN IF pubKey.err # "nil"
       THEN [cl |-> c, err |-> "unable to parse server key",
             events |-> <<"encoder", "error">>, u |-> NilUrl]
       ELSE
       LET shared == GenerateSharedSecret(c.privKey.v, pubKey.val)
           auth   == HashSalt(conf.Salt, shared)
           u      == UrlParse(conf.WsUri)
       IN IF u.err # "nil"
          THEN [cl |-> c, err |-> "unable to parse websocket url",
                events |-> <<"encoder", "tempKey", "auth", "error">>, u |-> NilUrl]
          ELSE [cl |-> c, err |-> "nil",
                events |-> <<"encoder", "tempKey", "auth", "uri", "wsDial">>,
                u |-> connectWsUrl(c, u.val, auth)]

\* A variant of connectWs that falls back on some registered codec when
\* the chosen format is not registered.
connectWsFallback(c, conf) ==
    connectWsUpgrade([c EXCEPT !.encoder = IF \E e \in c.codecs : e.Format = conf.Format
                                           THEN CodecOf(c, conf.Format)
                                           ELSE CHOOSE e \in c.codecs : TRUE,
                               !.codecs = {}],
                     conf)

\* connectWs up to the websocket dial: the chosen format must be
\* registered; its codec becomes the encoder and the registry is emptied.
connectWs(c, conf) ==
    IF ~\E e \in c.codecs : e.Format = conf.Format
    THEN [cl |-> c, err |-> "unknown message encoder", events |-> <<"error">>,
          u |-> NilUrl]
    ELSE connectWsUpgrade([c EXCEPT !.encoder = CodecOf(c, conf.Format),
                                    !.codecs = {}],
                          conf)

\* connectWs when the websocket dial returns an error.
\* A variant of connectWsDialError that clears the transport handle when the
\* websocket dial fails.
connectWsDialErrorClear(c) ==
    [cl |-> [c EXCEPT !.wsClient = 0], err |-> "unable to connect to websocket",
     events |-> <<"error">>]

connectWsDialError(c) ==
    [cl |-> c, err |-> "unable to connect to websocket", events |-> <<"error">>]

\* A variant of connectWsDialed that clears the scalar of the key once the
\* connection is there.
connectWsDialedWipe(c, con) ==
    [cl |-> [c EXCEPT !.wsClient = con, !.privKey.v.D = <<>>],
     err |-> "nil", events |-> <<"open">>]

\* connectWs when the websocket dial returns the connection con.
connectWsDialed(c, con) ==
    [cl |-> [c EXCEPT !.wsClient = con], err |-> "nil", events |-> <<"open">>]

\* A variant of Codec that keeps the encoder a format name already has.
CodecKeepFirst(c, e) ==
    IF \E x \in c.codecs : x.Format = e.Format THEN c
    ELSE [c EXCEPT !.codecs = c.codecs \cup {e}]

\* httpClient.Codec.
Codec(c, e) ==
    [c EXCEPT !.codecs = {x \in c.codecs : x.Format # e.Format} \cup {e}]

\* A variant of DialOnResponse that leaves the codecs as they were when
\* connectWs returns an error.
DialOnResponseRestore(c, b) ==
    LET r == getWsConfig(b)
    IN IF r.err # "nil"
       THEN [cl |-> c, err |-> r.err, events |-> r.events,
             conf |-> ZeroDsResp, u |-> NilUrl]
       ELSE LET w == connectWs(c, r.val)
            IN [cl |-> IF w.err # "nil" THEN [w.cl EXCEPT !.codecs = c.codecs] ELSE w.cl,
                err |-> w.err, events |-> r.events \o w.events,
                conf |-> r.val, u |-> w.u]

\* Dial from the response of the POST on: getWsConfig returns the dsResp
\* or an error, and on a dsResp connectWs runs up to the websocket dial.
DialOnResponse(c, b) ==
    LET r == getWsConfig(b)
    IN IF r.err # "nil"
       THEN [cl |-> c, err |-> r.err, events |-> r.events,
             conf |-> ZeroDsResp, u |-> NilUrl]
       ELSE LET w == connectWs(c, r.val)
            IN [cl |-> w.cl, err |-> w.err, events |-> r.events \o w.events,
                conf |-> r.val, u |-> w.u]

(***************************************************************************)
(* Bounds and input sets                                                   *)
(***************************************************************************)

\* Dial calls per behaviour.
MaxDials == 2

\* The reader of GenerateKey yields blocks of one byte with values up to
\* MaxRandByte, at most MaxReads of them.
MaxRandByte == 7
MaxReads == 2

\* The scalars of the key texts given to Unmarshal are the bytes 0..MaxScalar.
MaxScalar == 8

\* The blocks a reader of random data yields.  A block whose masked value
\* is zero is left out: on P-256 it is one block out of 2^256 (and the code
\* of elliptic.GenerateKey flips a bit of the second byte so that an
\* all-zero test reader does not yield it either).
RandBlocks == {<<b>> : b \in {v \in 1..MaxRandByte : v % Mask(Curve.NBits) # 0}}
RandReaders == UNION {[1..n -> RandBlocks] : n \in 0..MaxReads}

\* The points of the curve, and byte strings that are not the uncompressed
\* form of a point.
CurvePoints == {ScalarBaseMult(<<k>>) : k \in 1..(Curve.N - 1)}
PointBytes == {EllipticMarshal(pt.X, pt.Y) : pt \in CurvePoints} \cup {<<4, 1, 1>>}

\* The texts given to Unmarshal: a scalar alone, or a scalar and a point.
KeyTexts ==
    {EncodeToString(<<d>>) : d \in 0..MaxScalar}
    \cup {EncodeToString(<<d>>) \o <<SP>> \o EncodeToString(pb) :
              d \in 1..3, pb \in PointBytes}

\* The configurations the client is constructed from.
BrokerUrl == [Scheme |-> "http", Host |-> "localhost:8080", Path |-> "/conn",
              RawQuery |-> <<>>, ok |-> TRUE]
LongToken == [i \in 1..(TokenLen + 1) |-> i]
ShortToken == [i \in 1..(TokenLen - 1) |-> i]
ExactToken == [i \in 1..TokenLen |-> i]
ClientKeys == {GenerateKey(<< <<3>> >>).val, GenerateKey(<< <<5>> >>).val}
Confs == [isReq : {TRUE}, isResp : {FALSE}, broker : {BrokerUrl},
          name : {<<19, 30>>}, token : {ShortToken, LongToken},
          key : [isNil : {FALSE}, at : {1}, v : ClientKeys]]

\* The bodies a broker answers the handshake request with.
GoodUri == [Scheme |-> "http", Host |-> "broker", Path |-> "/ws",
            RawQuery |-> <<>>, ok |-> TRUE]
SecureUri == [Scheme |-> "wss", Host |-> "broker", Path |-> "/ws",
              RawQuery |-> <<>>, ok |-> TRUE]
QueryUri == [Scheme |-> "http", Host |-> "broker", Path |-> "/ws",
             RawQuery |-> << [k |-> "token",
                              v |-> [pre |-> ExactToken,
                                     sum |-> HashToken(DsId(GenerateKey(<< <<2>> >>).val.PublicKey,
                                                            <<19, 30>>),
                                                       ExactToken).sum]] >>,
             ok |-> TRUE]
BadUri == [Scheme |-> "", Host |-> "", Path |-> "%zz", RawQuery |-> <<>>, ok |-> FALSE]
GoodKeys == {Base64(GenerateKey(<< <<2>> >>).val.PublicKey),
             Base64(GenerateKey(<< <<4>> >>).val.PublicKey)}
BadKeys == {EncodeToString(<<4, 1, 1>>), <<1, BadChar, 2, 3>>}
Salts == {<<48, 48, 48, 48>>, <<49>>}
AllKeys == {"wsUri", "tempKey", "salt", "format"}
Bodies ==
    [kind : {"json"}, keys : {AllKeys}, format : {"json", "msgpack", "xml"},
     tempKey : GoodKeys, salt : Salts, wsUri : {GoodUri}]
    \cup [kind : {"json"}, keys : {AllKeys}, format : {"json"},
          tempKey : BadKeys, salt : {<<49>>}, wsUri : {GoodUri}]
    \cup [kind : {"json"}, keys : {AllKeys, AllKeys \ {"format"}}, format : {"json"},
          tempKey : {Base64(GenerateKey(<< <<2>> >>).val.PublicKey)},
          salt : {<<49>>}, wsUri : {SecureUri, BadUri}]
    \cup [kind : {"json"}, keys : {AllKeys}, format : {"json"},
          tempKey : {Base64(GenerateKey(<< <<4>> >>).val.PublicKey)},
          salt : {<<49>>}, wsUri : {QueryUri}]
    \cup [kind : {"unreadable", "notjson"}, keys : {{}},
          format : {""}, tempKey : {<<>>}, salt : {<<>>}, wsUri : {EmptyUri}]

(***************************************************************************)
(* State                                                                   *)
(***************************************************************************)

VARIABLES
    cl,      \* the httpClient
    pc,      \* where the client's Dial is: "idle" (not in Dial), "post"
             \* (blocked in htClient.Post), "ws" (blocked in the websocket dial)
    dial,    \* the current Dial, or the last one when pc = "idle"
    gap,     \* TRUE when Codec was called since the last Dial returned
    conns,   \* the transports that are open
    bodies,  \* the number of response bodies that are open
    fs,      \* the files written, path :> content
    keys,    \* the results of the last key operation on the slots "A" and "B"
    call,    \* the last call of a function that has no effect on the state
             \* above: its name, its arguments and what it returned
    peers,   \* two clients constructed with one *crypto.PrivateKey, and the
             \* objects they both point to
    lg       \* package log: the level, the loggers, the goroutines that
             \* are in a logging call and the last Write on a writer

vars == <<cl, pc, dial, gap, conns, bodies, fs, keys, call, peers, lg>>

\* The state of a Dial: its number, the formats registered and the
\* transport held when it was called, the events so far, what it returned
\* ("running" until it returns), the dsResp it decoded (got tells whether
\* it did), the request it posted, the URL it dialled, and what the Dial
\* before it returned and whether Codec was called in between.
NoDial == [n |-> 0, adv |-> {}, ws0 |-> 0, steps |-> <<>>, ret |-> "none",
           conf |-> ZeroDsResp, got |-> FALSE, req |-> NoRequest, u |-> NilUrl,
           prev |-> "none", gap |-> FALSE]

NoKey == [val |-> ZeroPrivateKey, err |-> "nil", op |-> "none", arg |-> <<>>]

(***************************************************************************)
(* package log                                                             *)
(***************************************************************************)

MaxLoggers == 3
MaxPanics == 1

DebugLevel == 0
InfoLevel == 1
WarningLevel == 2
ErrorLevel == 3
DisabledLevel == 4

\* Level.String.
LevelString(l) ==
    IF l = DebugLevel THEN "DEBUG"
    ELSE IF l = InfoLevel THEN "INFO"
    ELSE IF l = WarningLevel THEN "WARN"
    ELSE IF l = ErrorLevel THEN "ERROR"
    ELSE IF l = DisabledLevel THEN ""
    ELSE "UNKNOWN"

\* A text is a sequence of pieces: brackets, blanks, prefixes, the pieces of
\* a message, and the newline, which is a piece of its own.  Stamp is what
\* time.Now().Format(time.StampMilli) gives.
Stamp == "Jan _2 15:04:05.000"

\* An io.Writer is a positive number, nil is 0; a *Logger is its position
\* in lg.loggers, nil is 0; a goroutine is a positive number, and the mu of
\* a Logger holds the goroutine that has locked it, or 0.
NilWriter == 0
Stderr == 1
TestBuffer == 2
Threads == {1, 2}

\* The rootLogger of init().
rootLogger == 1
RootLogger == [parent |-> 0, prefix |-> "DSA", buf |-> <<>>, out |-> Stderr, mu |-> 0]

\* A goroutine that is in no logging call: pc is where it is in the call
\* ("discarded", "returned" and "panicked" when the call is over and the
\* goroutine is about to go on),
\* l, lvl and msg are the call, cur and b the receiver and the argument of the writeBuf it is in (b is also the
\* buffer of write), held the loggers it has locked, w the writer of its
\* Write call and writes the Write calls of the call.
IdleThread == [pc |-> "idle", l |-> 0, lvl |-> 0, msg |-> <<>>,
               cur |-> 0, b |-> <<>>, held |-> <<>>, w |-> 0, writes |-> 0]

\* The package after init(): currentLevel, the loggers (the first is the
\* rootLogger), the goroutines, and the number of logging calls that have
\* panicked.
NewLog == [currentLevel |-> WarningLevel,
           loggers |-> << RootLogger >>,
           th      |-> [t \in Threads |-> IdleThread],
           panics  |-> 0]

\* A variant of Discards that also discards a message at the current level.
DiscardsAtLevel(current, lvl) == current >= lvl

\* The test at the head of Debug, Info, Warn and Error and their f forms.
Discards(current, lvl) == current > lvl

\* A variant of CanLock in which Lock does not wait.
CanLockHeld(logger) == TRUE

\* l.mu.Lock() returns when no goroutine holds the mutex.
CanLock(logger) == logger.mu = 0

\* Logger.addPrefix: the buffer with the prefix in brackets after it.
addPrefix(logger) ==
    IF logger.prefix # "" THEN logger.buf \o <<"[", logger.prefix, "]">>
    ELSE logger.buf

\* The buffer of Logger.write: the level, the time and what l.buf holds,
\* with a newline when the last byte is none.
WriteLine(logger, lvl) ==
    LET b == <<"[", LevelString(lvl), "]", " ", Stamp, " ">> \o logger.buf
    IN IF b[Len(b)] # "\n" THEN Append(b, "\n") ELSE b

\* SetLevel.
SetLevel(level) ==
    /\ lg' = [lg EXCEPT !.currentLevel = level]
    /\ UNCHANGED <<cl, pc, dial, gap, conns, bodies, fs, keys, call, peers>>

\* SetOutput.  The callers take the output away only while fewer than
\* MaxPanics logging calls have panicked.
SetOutput(w) ==
    /\ w = NilWriter => lg.panics < MaxPanics
    /\ lg' = [lg EXCEPT !.loggers[rootLogger].out = w]
    /\ UNCHANGED <<cl, pc, dial, gap, conns, bodies, fs, keys, call, peers>>

\* New(prefix, parent).
New(prefix, parent) ==
    [parent |-> IF parent = 0 THEN rootLogger ELSE parent,
     prefix |-> prefix, buf |-> <<>>, out |-> NilWriter, mu |-> 0]

\* The prefixes the callers give to New: that of the first logger, of the
\* second, and of the others.
LogPrefix(n) == IF n = 2 THEN "Test" ELSE IF n = 3 THEN "Test2" ELSE ""

\* A call of New: the parent is nil or a logger New returned.
LogNew(prefix, parent) ==
    /\ Len(lg.loggers) < MaxLoggers
    /\ prefix = LogPrefix(Len(lg.loggers) + 1)
    /\ parent = 0 \/ parent \in 2..Len(lg.loggers)
    /\ lg' = [lg EXCEPT !.loggers = Append(@, New(prefix, parent))]
    /\ UNCHANGED <<cl, pc, dial, gap, conns, bodies, fs, keys, call, peers>>

\* l.Debug, l.Info, l.Warn, l.Error and their f forms, up to the call of
\* writeBuf; msg is what fmt prints for the arguments.  The functions of
\* the package are these methods on the rootLogger.  The callers log
\* without an output only while fewer than MaxPanics calls have panicked.
LogCall(t, l, lvl, msg) ==
    /\ lg.th[t].pc = "idle"
    /\ lg.loggers[rootLogger].out = NilWriter => lg.panics < MaxPanics
    /\ l \in 1..Len(lg.loggers)
    /\ lg' = IF Discards(lg.currentLevel, lvl)
             THEN [lg EXCEPT !.th[t] =
                       [IdleThread EXCEPT !.pc = "discarded", !.l = l, !.lvl = lvl,
                                          !.msg = msg]]
             ELSE [lg EXCEPT !.th[t] =
                       [IdleThread EXCEPT !.pc = "writeBuf", !.l = l, !.lvl = lvl,
                                          !.msg = msg, !.cur = l,
                                          !.b = <<" ">> \o msg]]
    /\ UNCHANGED <<cl, pc, dial, gap, conns, bodies, fs, keys, call, peers>>

\* Logger.writeBuf from l.mu.Lock() to the call of the parent's writeBuf or
\* of write.
writeBuf(t) ==
    LET th  == lg.th[t]
        buf == addPrefix(lg.loggers[th.cur]) \o th.b
    IN /\ th.pc = "writeBuf"
       /\ CanLock(lg.loggers[th.cur])
       /\ lg' = [lg EXCEPT
                   !.loggers[th.cur].mu = t,
                   !.loggers[th.cur].buf = buf,
                   !.th[t].held = Append(@, th.cur),
                   !.th[t].b = buf,
                   !.th[t].cur = IF lg.loggers[th.cur].parent # 0
                                 THEN lg.loggers[th.cur].parent ELSE th.cur,
                   !.th[t].pc = IF lg.loggers[th.cur].parent # 0
                                THEN "writeBuf" ELSE "write"]
       /\ UNCHANGED <<cl, pc, dial, gap, conns, bodies, fs, keys, call, peers>>

\* Logger.write up to b.WriteTo(l.out): it panics without an output, and
\* l.buf.WriteTo(b) leaves l.buf empty.
write(t) ==
    LET th == lg.th[t]
    IN /\ th.pc = "write"
       /\ lg' = IF lg.loggers[th.cur].out = NilWriter
                THEN [lg EXCEPT !.th[t].pc = "panic", !.panics = @ + 1]
                ELSE [lg EXCEPT !.loggers[th.cur].buf = <<>>,
                                !.th[t].b = WriteLine(lg.loggers[th.cur], th.lvl),
                                !.th[t].pc = "WriteTo"]
       /\ UNCHANGED <<cl, pc, dial, gap, conns, bodies, fs, keys, call, peers>>

\* b.WriteTo(l.out) up to the one call of Write it makes; Write on a nil
\* io.Writer panics.
WriteTo(t) ==
    LET th == lg.th[t]
    IN /\ th.pc = "WriteTo"
       /\ lg' = IF lg.loggers[th.cur].out = NilWriter
                THEN [lg EXCEPT !.th[t].pc = "panic", !.panics = @ + 1]
                ELSE [lg EXCEPT !.th[t].writes = @ + 1,
                                !.th[t].w = lg.loggers[th.cur].out,
                                !.th[t].pc = "Write"]
       /\ UNCHANGED <<cl, pc, dial, gap, conns, bodies, fs, keys, call, peers>>

\* The Write call of b.WriteTo returns, and write returns to the writeBuf
\* of the rootLogger.
WriteReturn(t) ==
    LET th == lg.th[t]
    IN /\ th.pc = "Write"
       /\ lg' = [lg EXCEPT !.th[t].pc = "return"]
       /\ UNCHANGED <<cl, pc, dial, gap, conns, bodies, fs, keys, call, peers>>

\* A variant of writeBufReturn without the deferred Unlock.
writeBufReturnLocked(t) ==
    LET th  == lg.th[t]
        n   == Len(th.held)
        top == th.held[n]
    IN /\ th.pc \in {"return", "panic"}
       /\ lg' = [lg EXCEPT
                   !.loggers[top].buf = IF th.pc = "return" THEN <<>> ELSE @,
                   !.th[t] = IF n > 1 THEN [th EXCEPT !.held = SubSeq(th.held, 1, n - 1)]
                             ELSE [IdleThread EXCEPT
                                      !.pc = IF th.pc = "panic" THEN "panicked"
                                             ELSE "returned",
                                      !.l = th.l, !.lvl = th.lvl, !.msg = th.msg,
                                      !.writes = th.writes]]
       /\ UNCHANGED <<cl, pc, dial, gap, conns, bodies, fs, keys, call, peers>>

\* The end of the innermost writeBuf a goroutine is in: l.buf.Reset() and
\* the deferred l.mu.Unlock(), or the deferred Unlock alone when a panic
\* passes through it.  After the outermost writeBuf the logging call
\* returns, or the panic reaches its caller.
writeBufReturn(t) ==
    LET th  == lg.th[t]
        n   == Len(th.held)
        top == th.held[n]
    IN /\ th.pc \in {"return", "panic"}
       /\ lg' = [lg EXCEPT
                   !.loggers[top].mu = 0,
                   !.loggers[top].buf = IF th.pc = "return" THEN <<>> ELSE @,
                   !.th[t] = IF n > 1 THEN [th EXCEPT !.held = SubSeq(th.held, 1, n - 1)]
                             ELSE [IdleThread EXCEPT
                                      !.pc = IF th.pc = "panic" THEN "panicked"
                                             ELSE "returned",
                                      !.l = th.l, !.lvl = th.lvl, !.msg = th.msg,
                                      !.writes = th.writes]]
       /\ UNCHANGED <<cl, pc, dial, gap, conns, bodies, fs, keys, call, peers>>

\* The goroutine goes on after a logging call: the call was discarded, or
\* returned, or panicked and the goroutine recovered.
LogReturn(t) ==
    /\ lg.th[t].pc \in {"discarded", "returned", "panicked"}
    /\ lg' = [lg EXCEPT !.th[t] = IdleThread]
    /\ UNCHANGED <<cl, pc, dial, gap, conns, bodies, fs, keys, call, peers>>

\* What the callers of the package give it.
Levels == DebugLevel..DisabledLevel
Methods == DebugLevel..ErrorLevel
Writers == {NilWriter, Stderr, TestBuffer}
LogPrefixes == {"Test", "Test2", ""}

\* The message of a goroutine: the second ends with a newline.
ThreadMessage(t) == IF t = 1 THEN <<"a">> ELSE <<"b", "\n">>

\* One goroutine uses the package, and the output is at times taken away.
LogNext ==
    \/ \E level \in Levels : SetLevel(level)
    \/ \E w \in Writers \ {TestBuffer} : SetOutput(w)
    \/ \E prefix \in LogPrefixes, parent \in 0..MaxLoggers : LogNew(prefix, parent)
    \/ \E l \in 1..MaxLoggers, lvl \in Methods : LogCall(1, l, lvl, ThreadMessage(1))
    \/ writeBuf(1)
    \/ write(1)
    \/ WriteTo(1)
    \/ WriteReturn(1)
    \/ writeBufReturn(1)
    \/ LogReturn(1)

\* The goroutines log warnings and errors at the level of init() while
\* loggers are made and the output is set to one writer or another.
GoNext ==
    \/ \E w \in Writers \ {NilWriter} : SetOutput(w)
    \/ \E prefix \in LogPrefixes, parent \in 0..MaxLoggers : LogNew(prefix, parent)
    \/ \E t \in Threads, l \in 1..MaxLoggers, lvl \in {WarningLevel, ErrorLevel} :
           LogCall(t, l, lvl, ThreadMessage(t))
    \/ \E t \in Threads : writeBuf(t)
    \/ \E t \in Threads : write(t)
    \/ \E t \in Threads : WriteTo(t)
    \/ \E t \in Threads : WriteReturn(t)
    \/ \E t \in Threads : writeBufReturn(t)
    \/ \E t \in Threads : LogReturn(t)

(***************************************************************************)
(* package log, the logger that prints from one goroutine.  Its state is   *)
(* held in lg by the specification that uses it in place of the loggers    *)
(* with a mutex.                                                           *)
(***************************************************************************)
MaxLogs == 3
MaxSets == 2

\* Two of the levels: a message at FineLvl is under the level of init().
FineLvl == 2
WarningLvl == 3

\* os.Stdout, and the capacity of ch.
Stdout == 3
ChanCap == 10

NoRecord == [Level |-> 0, LoggerName |-> "", Format |-> <<>>, n |-> 0]
NoWrite == [w |-> NilWriter, r |-> NoRecord, k |-> 0]

\* The package after init(): the level of the rootLogger, the records in
\* ch, out, the writer each goroutine is sending on och (none when it is
\* not in SetOutput), and printLog at its select.  recv lists the writers
\* printLog has received, logs counts the calls of Logf, and last is the
\* latest Fprint: the writer, the record, and how many writers had been
\* received.  n in a record is how many SetOutput calls had returned when
\* it was logged.
NewChanLog == [level |-> WarningLvl,
               ch    |-> <<>>,
               out   |-> Stdout,
               och   |-> [t \in Threads |-> NilWriter],
               pl    |-> [pc |-> "select", r |-> NoRecord, o |-> NilWriter],
               recv  |-> <<>>,
               logs  |-> 0,
               sets  |-> 0,
               last  |-> NoWrite]

\* Logger.Logf on the rootLogger: the record is sent on ch unless the
\* level discards it; the send waits while ch is full.
Logf(t, lvl, msg) ==
    /\ lg.och[t] = NilWriter
    /\ lg.logs < MaxLogs
    /\ lg.level > lvl \/ Len(lg.ch) < ChanCap
    /\ lg' = IF lg.level > lvl
             THEN [lg EXCEPT !.logs = @ + 1]
             ELSE [lg EXCEPT !.logs = @ + 1,
                             !.ch = Append(@, [Level |-> lvl, LoggerName |-> "DSA",
                                               Format |-> msg, n |-> Len(lg.recv)])]
    /\ UNCHANGED <<cl, pc, dial, gap, conns, bodies, fs, keys, call, peers>>

\* SetOutput up to the send on och, which waits for printLog.
ChanSetOutput(t, w) ==
    /\ lg.och[t] = NilWriter
    /\ lg.sets < MaxSets
    /\ lg' = [lg EXCEPT !.och[t] = w, !.sets = @ + 1]
    /\ UNCHANGED <<cl, pc, dial, gap, conns, bodies, fs, keys, call, peers>>

\* printLog: the select takes a record from ch.
printLogRecord ==
    /\ lg.pl.pc = "select"
    /\ lg.ch # <<>>
    /\ lg' = [lg EXCEPT !.ch = Tail(@),
                        !.pl = [pc |-> "Fprint", r |-> Head(lg.ch), o |-> NilWriter]]
    /\ UNCHANGED <<cl, pc, dial, gap, conns, bodies, fs, keys, call, peers>>

\* printLog: fmt.Fprint(out, r.String()).
printLogFprint ==
    /\ lg.pl.pc = "Fprint"
    /\ lg' = [lg EXCEPT !.last = [w |-> lg.out, r |-> lg.pl.r, k |-> Len(lg.recv)],
                        !.pl = [pc |-> "select", r |-> NoRecord, o |-> NilWriter]]
    /\ UNCHANGED <<cl, pc, dial, gap, conns, bodies, fs, keys, call, peers>>

\* A variant of printLogWriter that takes the writer off och and goes back
\* to the select without the assignment.
printLogWriterDropped(t) ==
    /\ lg.pl.pc = "select"
    /\ lg.och[t] # NilWriter
    /\ lg' = [lg EXCEPT !.och[t] = NilWriter,
                        !.recv = Append(@, lg.och[t])]
    /\ UNCHANGED <<cl, pc, dial, gap, conns, bodies, fs, keys, call, peers>>

\* printLog: the select takes the writer a goroutine is sending on och,
\* and the SetOutput of that goroutine returns.
printLogWriter(t) ==
    /\ lg.pl.pc = "select"
    /\ lg.och[t] # NilWriter
    /\ lg' = [lg EXCEPT !.och[t] = NilWriter,
                        !.recv = Append(@, lg.och[t]),
                        !.pl = [pc |-> "assign", r |-> NoRecord, o |-> lg.och[t]]]
    /\ UNCHANGED <<cl, pc, dial, gap, conns, bodies, fs, keys, call, peers>>

\* printLog: out = o.
printLogAssign ==
    /\ lg.pl.pc = "assign"
    /\ lg' = [lg EXCEPT !.out = lg.pl.o,
                        !.pl = [pc |-> "select", r |-> NoRecord, o |-> NilWriter]]
    /\ UNCHANGED <<cl, pc, dial, gap, conns, bodies, fs, keys, call, peers>>

\* The goroutines log at two levels and set the output to one writer or
\* another while printLog runs.
ChanNext ==
    \/ \E t \in Threads, lvl \in {FineLvl, WarningLvl} : Logf(t, lvl, ThreadMessage(t))
    \/ \E t \in Threads, w \in {Stderr, TestBuffer} : ChanSetOutput(t, w)
    \/ printLogRecord
    \/ printLogFprint
    \/ \E t \in Threads : printLogWriter(t)
    \/ printLogAssign

NoCall == [op |-> "none"]

\* The key the two clients of peers are constructed with, and their
\* configurations: the same key pointer, two names, one token.
SharedKey == GenerateKey(<< <<3>> >>).val
PeerConf(i) ==
    [isReq |-> TRUE, isResp |-> FALSE, broker |-> BrokerUrl,
     name |-> IF i = 1 THEN <<19, 30>> ELSE <<19, 31>>,
     token |-> IF i = 1 THEN LongToken ELSE <<>>,
     key |-> [isNil |-> FALSE, at |-> 1, v |-> SharedKey]]

\* A client of peers: the httpClient, where its Dial is, the number of its
\* Dial calls, and the events, the outcome, the dsResp and the upgrade URL
\* of its last Dial.
NewPeer(i) ==
    [cl |-> NewHttpClient(PeerConf(i)).val, pc |-> "idle", n |-> 0, steps |-> <<>>,
     ret |-> "none", conf |-> ZeroDsResp, u |-> NilUrl]

\* The objects the clients share by pointer: the PrivateKey behind privKey
\* and the Encoders behind the package variables and the caller's own.
NewPeers ==
    [heap |-> [key |-> SharedKey, enc |-> [id \in {e.id : e \in Encoders} |->
                                             CHOOSE e \in Encoders : e.id = id]],
     c    |-> [i \in 1..2 |-> NewPeer(i)],
     last |-> 0]

Init ==
    /\ cl \in {NewHttpClient(c).val : c \in Confs}
    /\ pc = "idle"
    /\ dial = NoDial
    /\ gap = FALSE
    /\ conns = {}
    /\ bodies = 0
    /\ fs = <<>>
    /\ keys = [s \in {"A", "B"} |-> NoKey]
    /\ call = NoCall
    /\ peers = NewPeers
    /\ lg = NewLog

\* Where Dial is after a segment that went through the events es: blocked
\* in the network call it issued last, or returned.
After(es) ==
    IF es # <<>> /\ es[Len(es)] = "post" THEN "post"
    ELSE IF es # <<>> /\ es[Len(es)] = "wsDial" THEN "ws"
    ELSE "idle"

\* The number of times the event ev is in es.
Count(es, ev) == Cardinality({i \in 1..Len(es) : es[i] = ev})

(***************************************************************************)
(* Actions of the client                                                   *)
(***************************************************************************)

\* cl.Codec(e), outside Dial.
CodecCall(e) ==
    /\ pc = "idle"
    /\ cl' = Codec(cl, e)
    /\ gap' = TRUE
    /\ UNCHANGED <<pc, dial, conns, bodies, fs, keys, call, peers, lg>>

\* cl.Dial() is called and runs until it returns or blocks in the POST.
DialCall ==
    /\ pc = "idle"
    /\ dial.n < MaxDials
    /\ LET r == DialBegin(cl)
       IN /\ cl' = r.cl
          /\ pc' = After(r.events)
          /\ dial' = [n |-> dial.n + 1,
                      adv |-> {e.Format : e \in cl.codecs},
                      ws0 |-> cl.wsClient,
                      steps |-> r.events,
                      ret |-> IF After(r.events) = "idle" THEN r.err ELSE "running",
                      conf |-> ZeroDsResp, got |-> FALSE,
                      req |-> r.req, u |-> NilUrl,
                      prev |-> dial.ret, gap |-> gap]
    /\ gap' = FALSE
    /\ UNCHANGED <<conns, bodies, fs, keys, call, peers, lg>>

\* The POST fails (no response).
PostError ==
    /\ pc = "post"
    /\ LET r == getWsConfigPostError(cl)
       IN /\ cl' = r.cl
          /\ pc' = After(r.events)
          /\ dial' = [dial EXCEPT !.steps = @ \o r.events,
                                  !.ret = IF After(r.events) = "idle" THEN r.err ELSE "running"]
    /\ UNCHANGED <<gap, conns, bodies, fs, keys, call, peers, lg>>

\* The POST returns a response with body b; Dial runs on until it returns
\* or blocks in the websocket dial.
PostResponse(b) ==
    /\ pc = "post"
    /\ LET r == DialOnResponse(cl, b)
       IN /\ cl' = r.cl
          /\ pc' = After(r.events)
          /\ dial' = [dial EXCEPT !.steps = @ \o r.events,
                                  !.ret = IF After(r.events) = "idle" THEN r.err ELSE "running",
                                  !.conf = r.conf,
                                  !.got = Count(r.events, "parsed") > 0,
                                  !.u = r.u]
          /\ bodies' = bodies + Count(r.events, "response") - Count(r.events, "close")
    /\ UNCHANGED <<gap, conns, fs, keys, call, peers, lg>>

\* The websocket dial fails.
WsError ==
    /\ pc = "ws"
    /\ LET r == connectWsDialError(cl)
       IN /\ cl' = r.cl
          /\ pc' = After(r.events)
          /\ dial' = [dial EXCEPT !.steps = @ \o r.events,
                                  !.ret = IF After(r.events) = "idle" THEN r.err ELSE "running"]
    /\ UNCHANGED <<gap, conns, bodies, fs, keys, call, peers, lg>>

\* The websocket dial returns a connection; Dial returns nil.
\* A variant of WsOpen that opens the transport at the scheme the wsUri of
\* the broker carries.
WsOpenAsGiven ==
    /\ pc = "ws"
    /\ LET r == connectWsDialed(cl, dial.n)
       IN /\ cl' = r.cl
          /\ pc' = After(r.events)
          /\ dial' = [dial EXCEPT !.steps = @ \o r.events,
                                  !.u.Scheme = dial.conf.WsUri.Scheme,
                                  !.ret = IF After(r.events) = "idle" THEN r.err ELSE "running"]
    /\ conns' = conns \cup {dial.n}
    /\ UNCHANGED <<gap, bodies, fs, keys, call, peers, lg>>

WsOpen ==
    /\ pc = "ws"
    /\ LET r == connectWsDialed(cl, dial.n)
       IN /\ cl' = r.cl
          /\ pc' = After(r.events)
          /\ dial' = [dial EXCEPT !.steps = @ \o r.events,
                                  !.ret = IF After(r.events) = "idle" THEN r.err ELSE "running"]
    /\ conns' = conns \cup {dial.n}
    /\ UNCHANGED <<gap, bodies, fs, keys, call, peers, lg>>

Next ==
    \/ \E e \in Encoders : CodecCall(e)
    \/ DialCall
    \/ PostError
    \/ \E b \in Bodies : PostResponse(b)
    \/ WsError
    \/ WsOpen

Spec == Init /\ [][Next]_vars

(***************************************************************************)
(* Actions on keys: the operations of ellipticECDH applied to inputs of    *)
(* the bounded sets, their results kept in the slots "A" and "B".          *)
(***************************************************************************)

Other(s) == IF s = "A" THEN "B" ELSE "A"

\* keys[s] = GenerateKey(rand).
GenerateKeyCall(s, rand) ==
    /\ LET r == GenerateKey(rand)
       IN keys' = [keys EXCEPT ![s] = [val |-> r.val, err |-> r.err,
                                       op |-> "GenerateKey", arg |-> <<>>]]
    /\ UNCHANGED <<cl, pc, dial, gap, conns, bodies, fs, call, peers, lg>>

\* keys[s] = Unmarshal(str).
UnmarshalCall(s, str) ==
    /\ LET r == Unmarshal(str)
       IN keys' = [keys EXCEPT ![s] = [val |-> r.val, err |-> r.err,
                                       op |-> "Unmarshal", arg |-> str]]
    /\ UNCHANGED <<cl, pc, dial, gap, conns, bodies, fs, call, peers, lg>>

\* keys[s] = Unmarshal(Marshal(k)) for the key k of the other slot.
MarshalUnmarshalCall(s) ==
    /\ keys[Other(s)].op # "none"
    /\ keys[Other(s)].err = "nil"
    /\ Marshal(keys[Other(s)].val).err = "nil"
    /\ UnmarshalCall(s, Marshal(keys[Other(s)].val).val)

\* keys[s] = Unmarshal(strings.Split(Marshal(k), " ")[0]) for the key k of
\* the other slot: the decoding of the scalar field alone.
ScalarUnmarshalCall(s) ==
    /\ keys[Other(s)].op # "none"
    /\ keys[Other(s)].err = "nil"
    /\ Marshal(keys[Other(s)].val).err = "nil"
    /\ UnmarshalCall(s, Split(Marshal(keys[Other(s)].val).val)[1])

KeyNext ==
    \/ \E s \in {"A", "B"}, rand \in RandReaders : GenerateKeyCall(s, rand)
    \/ \E s \in {"A", "B"}, str \in KeyTexts : UnmarshalCall(s, str)
    \/ \E s \in {"A", "B"} : MarshalUnmarshalCall(s)
    \/ \E s \in {"A", "B"} : ScalarUnmarshalCall(s)

KeyInit ==
    /\ Init
    /\ cl = NewHttpClient(CHOOSE c \in Confs : TRUE).val

KeySpec == KeyInit /\ [][KeyNext]_vars

(***************************************************************************)
(* Single calls: one function of the packages applied to an input of a     *)
(* bounded set, the call and what it returned kept in the variable call    *)
(* until the caller drops them.                                            *)
(***************************************************************************)

MaxFields == 3
MaxCoord == 11

RECURSIVE JoinFields(_)
\* The text whose space-separated fields are those of the sequence.
JoinFields(fields) ==
    IF Len(fields) = 1 THEN fields[1]
    ELSE fields[1] \o <<SP>> \o JoinFields(Tail(fields))

\* Fields of a key text: empty, not base64url (a character outside the
\* alphabet, a length no encoding has), a scalar, a point, bytes that are
\* no point.
KeyFields == {<<>>, <<BadChar>>, <<0>>, EncodeToString(<<2>>),
              EncodeToString(<<4, 8, 5>>), EncodeToString(<<4, 1, 1>>)}

\* The texts given to a single Unmarshal: those of KeyTexts and every text
\* of one to MaxFields fields of KeyFields.
FieldTexts ==
    KeyTexts \cup {JoinFields(f) : f \in UNION {[1..n -> KeyFields] : n \in 1..MaxFields}}

\* The texts given to UnmarshalPublic: the base64url of a form byte and two
\* coordinates (every pair up to MaxCoord, so also pairs off the curve, the
\* all-zero pair and coordinates that are not below P), of byte strings of
\* another length, and texts that are not base64url.
PubTexts ==
    {EncodeToString(<<t, x, y>>) : t \in {0, 4}, x \in 0..MaxCoord, y \in 0..MaxCoord}
    \cup {EncodeToString(<<>>), EncodeToString(<<4, 2>>), EncodeToString(<<4, 2, 1, 0>>),
          <<BadChar>>, <<1, BadChar, 2, 3>>, <<0>>}

\* The file systems LoadKey reads: no file, an empty default key file, a
\* default key file and a named one written by SaveKey, a file that is not
\* a key.
KeyFiles ==
    { <<>>,
      (defaultKeyFile :> <<>>),
      (defaultKeyFile :> Marshal(GenerateKey(<< <<3>> >>).val).val)
          @@ ("test.key" :> Marshal(GenerateKey(<< <<5>> >>).val).val),
      (defaultKeyFile :> EncodeToString(<<0>>))
          @@ ("test.key" :> JoinFields(<<EncodeToString(<<2>>), <<BadChar>>, <<>> >>)) }

KeyPaths == {"", defaultKeyFile, "test.key", "none.key"}

\* The public keys and the dsids given to VerifyDsId: the dsid of a public
\* key for a prefix (none, "link-", a prefix that ends with "x"), as it is
\* and followed by "x" (the character 49 of the base64url alphabet).
PublicKeys == {[Curve |-> Curve.Name, X |-> pt.X, Y |-> pt.Y] : pt \in CurvePoints}
Prefixes == {<<>>, <<37, 34, 39, 36, 62>>, <<49>>}
DsIds ==
    {DsId(p, prefix) : p \in PublicKeys, prefix \in Prefixes}
    \cup {Concat(DsId(p, prefix), <<49>>) : p \in PublicKeys, prefix \in Prefixes}

\* call = p.VerifyDsId(dsid).
VerifyDsIdOf(p, dsid) ==
    /\ call = NoCall
    /\ call' = [op |-> "VerifyDsId", pub |-> p, arg |-> dsid, val |-> VerifyDsId(p, dsid)]
    /\ UNCHANGED <<cl, pc, dial, gap, conns, bodies, fs, keys, peers, lg>>

\* call = Unmarshal(str).
UnmarshalOf(str) ==
    /\ call = NoCall
    /\ LET r == Unmarshal(str)
       IN call' = [op |-> "Unmarshal", arg |-> str, val |-> r.val, err |-> r.err]
    /\ UNCHANGED <<cl, pc, dial, gap, conns, bodies, fs, keys, peers, lg>>

\* call = UnmarshalPublic(str).
UnmarshalPublicOf(str) ==
    /\ call = NoCall
    /\ LET r == UnmarshalPublic(str)
       IN call' = [op |-> "UnmarshalPublic", arg |-> str, val |-> r.val, err |-> r.err]
    /\ UNCHANGED <<cl, pc, dial, gap, conns, bodies, fs, keys, peers, lg>>

\* call = LoadKey(path), on the files of fs.
LoadKeyOf(path) ==
    /\ call = NoCall
    /\ LET r == LoadKey(fs, path)
       IN call' = [op |-> "LoadKey", arg |-> path, val |-> r.val, err |-> r.err]
    /\ UNCHANGED <<cl, pc, dial, gap, conns, bodies, fs, keys, peers, lg>>

\* The caller is done with what the call returned.
Return ==
    /\ call # NoCall
    /\ call' = NoCall
    /\ UNCHANGED <<cl, pc, dial, gap, conns, bodies, fs, keys, peers, lg>>

CallNext ==
    \/ call = NoCall /\ \E str \in FieldTexts : UnmarshalOf(str)
    \/ call = NoCall /\ \E str \in PubTexts : UnmarshalPublicOf(str)
    \/ call = NoCall /\ \E path \in KeyPaths : LoadKeyOf(path)
    \/ call = NoCall /\ \E p \in PublicKeys, dsid \in DsIds : VerifyDsIdOf(p, dsid)
    \/ Return

CallInit ==
    /\ cl = NewHttpClient(CHOOSE c \in Confs : TRUE).val
    /\ pc = "idle"
    /\ dial = NoDial
    /\ gap = FALSE
    /\ conns = {}
    /\ bodies = 0
    /\ fs \in KeyFiles
    /\ keys = [s \in {"A", "B"} |-> NoKey]
    /\ call = NoCall
    /\ peers = NewPeers
    /\ lg = NewLog

CallSpec == CallInit /\ [][CallNext]_vars

(***************************************************************************)
(* Two clients that share a key: the operations of the client applied to   *)
(* either client of peers, in any interleaving of the segments between     *)
(* the blocking calls.  A step reads the client through its pointers and   *)
(* leaves in the shared objects what it left behind these pointers.        *)
(***************************************************************************)

MaxPeerDials == 1

PeerEncoders == {JsonCodec, MsgpCodec}

\* The bodies the broker answers the two clients with.
PeerBodies ==
    {[kind |-> "json", keys |-> AllKeys, format |-> "json",
      tempKey |-> Base64(GenerateKey(<< <<2>> >>).val.PublicKey),
      salt |-> <<48, 48, 48, 48>>, wsUri |-> GoodUri],
     [kind |-> "json", keys |-> AllKeys, format |-> "msgpack",
      tempKey |-> Base64(GenerateKey(<< <<4>> >>).val.PublicKey),
      salt |-> <<49>>, wsUri |-> GoodUri],
     [kind |-> "json", keys |-> AllKeys, format |-> "json",
      tempKey |-> EncodeToString(<<4, 1, 1>>),
      salt |-> <<49>>, wsUri |-> GoodUri]}

\* The httpClient i of p as its fields and the objects they point to are.
PeerView(p, i) ==
    LET c == p.c[i].cl
    IN [c EXCEPT !.privKey = [isNil |-> c.privKey.isNil, at |-> c.privKey.at, v |-> p.heap.key],
                 !.codecs  = {p.heap.enc[e.id] : e \in c.codecs},
                 !.encoder = IF c.encoder.id = "nil" THEN NilEncoder
                             ELSE p.heap.enc[c.encoder.id]]

\* The shared objects after a step that left the client as c: the key
\* behind c.privKey and the Encoders behind c.encoder and c.codecs are as
\* the step left them, the other Encoders as they were.
PeerStore(heap, c) ==
    [key |-> c.privKey.v,
     enc |-> [id \in DOMAIN heap.enc |->
                 IF c.encoder.id = id THEN c.encoder
                 ELSE IF \E e \in c.codecs : e.id = id
                      THEN CHOOSE e \in c.codecs : e.id = id
                      ELSE heap.enc[id]]]

\* peers after a step of client i that left its httpClient as c and its
\* record as peer.
PeerStep(i, c, peer) ==
    peers' = [heap |-> PeerStore(peers.heap, c),
              c    |-> [peers.c EXCEPT ![i] = peer],
              last |-> i]

\* Client i: cl.Codec(e), outside Dial.
PeerCodec(i, e) ==
    /\ peers.c[i].pc = "idle"
    /\ LET c == Codec(PeerView(peers, i), e)
       IN PeerStep(i, c, [peers.c[i] EXCEPT !.cl = c])
    /\ UNCHANGED <<cl, pc, dial, gap, conns, bodies, fs, keys, call, lg>>

\* Client i: cl.Dial() is called and runs until it returns or blocks in
\* the POST.
PeerDial(i) ==
    /\ peers.c[i].pc = "idle"
    /\ peers.c[i].n < MaxPeerDials
    /\ LET r == DialBegin(PeerView(peers, i))
       IN PeerStep(i, r.cl,
                   [cl |-> r.cl, pc |-> After(r.events), n |-> peers.c[i].n + 1,
                    steps |-> r.events,
                    ret |-> IF After(r.events) = "idle" THEN r.err ELSE "running",
                    conf |-> ZeroDsResp, u |-> NilUrl])
    /\ UNCHANGED <<cl, pc, dial, gap, conns, bodies, fs, keys, call, lg>>

\* Client i: the POST fails.
PeerPostError(i) ==
    /\ peers.c[i].pc = "post"
    /\ LET r == getWsConfigPostError(PeerView(peers, i))
       IN PeerStep(i, r.cl,
                   [peers.c[i] EXCEPT !.cl = r.cl, !.pc = After(r.events),
                                      !.steps = @ \o r.events,
                                      !.ret = IF After(r.events) = "idle" THEN r.err
                                              ELSE "running"])
    /\ UNCHANGED <<cl, pc, dial, gap, conns, bodies, fs, keys, call, lg>>

\* Client i: the POST returns a response with body b.
PeerPostResponse(i, b) ==
    /\ peers.c[i].pc = "post"
    /\ LET r == DialOnResponse(PeerView(peers, i), b)
       IN PeerStep(i, r.cl,
                   [peers.c[i] EXCEPT !.cl = r.cl, !.pc = After(r.events),
                                      !.steps = @ \o r.events,
                                      !.ret = IF After(r.events) = "idle" THEN r.err
                                              ELSE "running",
                                      !.conf = r.conf, !.u = r.u])
    /\ UNCHANGED <<cl, pc, dial, gap, conns, bodies, fs, keys, call, lg>>

\* Client i: the websocket dial fails.
PeerWsError(i) ==
    /\ peers.c[i].pc = "ws"
    /\ LET r == connectWsDialError(PeerView(peers, i))
       IN PeerStep(i, r.cl,
                   [peers.c[i] EXCEPT !.cl = r.cl, !.pc = After(r.events),
                                      !.steps = @ \o r.events,
                                      !.ret = IF After(r.events) = "idle" THEN r.err
                                              ELSE "running"])
    /\ UNCHANGED <<cl, pc, dial, gap, conns, bodies, fs, keys, call, lg>>

\* Client i: the websocket dial returns a connection; Dial returns nil.
PeerWsOpen(i) ==
    /\ peers.c[i].pc = "ws"
    /\ LET r == connectWsDialed(PeerView(peers, i), 2 * peers.c[i].n + i)
       IN PeerStep(i, r.cl,
                   [peers.c[i] EXCEPT !.cl = r.cl, !.pc = After(r.events),
                                      !.steps = @ \o r.events,
                                      !.ret = IF After(r.events) = "idle" THEN r.err
                                              ELSE "running"])
    /\ UNCHANGED <<cl, pc, dial, gap, conns, bodies, fs, keys, call, lg>>

PairNext ==
    \/ \E i \in 1..2, e \in PeerEncoders : PeerCodec(i, e)
    \/ \E i \in 1..2 : PeerDial(i)
    \/ \E i \in 1..2 : PeerPostError(i)
    \/ \E i \in 1..2, b \in PeerBodies : PeerPostResponse(i, b)
    \/ \E i \in 1..2 : PeerWsError(i)
    \/ \E i \in 1..2 : PeerWsOpen(i)

PairInit ==
    /\ Init
    /\ cl = NewHttpClient(CHOOSE c \in Confs : TRUE).val

PairSpec == PairInit /\ [][PairNext]_vars

(***************************************************************************)
(* The codec registry: Codec calls on a client that has not dialled, the   *)
(* encoders given so far kept in call.                                     *)
(***************************************************************************)

MaxCodecs == 4

\* The encoders given to Codec: those of Encoders and one more of the
\* caller's, with a format name of its own.
XmlCodec == [Format |-> "xml", MsgType |-> Text, id |-> "XmlCodec"]
RegistryEncoders == Encoders \cup {XmlCodec}

\* The encoders given to Codec so far.
Registered == IF call = NoCall THEN <<>> ELSE call.arg

\* cl.Codec(e) on a client that has not dialled.
RegisterCall(e) ==
    /\ pc = "idle"
    /\ dial.n = 0
    /\ Len(Registered) < MaxCodecs
    /\ cl' = Codec(cl, e)
    /\ gap' = TRUE
    /\ call' = [op |-> "Codec", arg |-> Append(Registered, e)]
    /\ UNCHANGED <<pc, dial, conns, bodies, fs, keys, peers, lg>>

RegistryNext == \E e \in RegistryEncoders : RegisterCall(e)

RegistryInit ==
    /\ Init
    /\ cl = NewHttpClient(CHOOSE c \in Confs : TRUE).val

RegistrySpec == RegistryInit /\ [][RegistryNext]_vars

(***************************************************************************)
(* The key store: SaveKey and LoadKey on the files of fs.                  *)
(***************************************************************************)

MaxWritten == 2

\* The keys given to SaveKey: keys of GenerateKey, a key of the two-field
\* Unmarshal whose point is not its scalar's, and the key Unmarshal returns
\* for the empty text.
StoreKeys ==
    {GenerateKey(<< <<3>> >>).val, GenerateKey(<< <<5>> >>).val,
     Unmarshal(EncodeToString(<<1>>) \o <<SP>> \o EncodeToString(<<4, 8, 5>>)).val,
     Unmarshal(<<>>).val}

StorePaths == {"", defaultKeyFile, "test.key"}

\* What the operating system does with a write.
WriteOutcomes ==
    {[kind |-> "ok", n |-> 0], [kind |-> "open", n |-> 0]}
    \cup {[kind |-> "write", n |-> n] : n \in 0..MaxWritten}

\* The file a path names.
FileOf(path) == IF path = "" THEN defaultKeyFile ELSE path

\* call = SaveKey(key, path); the call keeps what the file held before.
SaveKeyOf(key, path, outcome) ==
    /\ call = NoCall
    /\ outcome.kind = "write" => outcome.n < Len(Marshal(key).val)
    /\ LET r == SaveKey(fs, key, path, outcome)
       IN /\ fs' = r.files
          /\ call' = [op |-> "SaveKey", key |-> key, arg |-> path, err |-> r.err,
                      prior |-> IF FileOf(path) \in DOMAIN fs
                                THEN << fs[FileOf(path)] >> ELSE <<>>]
    /\ UNCHANGED <<cl, pc, dial, gap, conns, bodies, keys, peers, lg>>

\* call = LoadKey(path) right after a SaveKey that returned no error; the
\* call keeps the key and the path of that SaveKey.
LoadSavedOf(path) ==
    /\ call # NoCall
    /\ call.op = "SaveKey"
    /\ call.err = "nil"
    /\ LET r == LoadKey(fs, path)
       IN call' = [op |-> "LoadSaved", arg |-> path, val |-> r.val, err |-> r.err,
                   saved |-> call.key, at |-> call.arg]
    /\ UNCHANGED <<cl, pc, dial, gap, conns, bodies, fs, keys, peers, lg>>

StoreNext ==
    \/ call = NoCall /\ \E key \in StoreKeys, path \in StorePaths, outcome \in WriteOutcomes :
                            SaveKeyOf(key, path, outcome)
    \/ call = NoCall /\ \E path \in KeyPaths : LoadKeyOf(path)
    \/ \E path \in StorePaths : LoadSavedOf(path)
    \/ Return

StoreInit ==
    /\ Init
    /\ cl = NewHttpClient(CHOOSE c \in Confs : TRUE).val

StoreSpec == StoreInit /\ [][StoreNext]_vars

(***************************************************************************)
(* Construction: NewHttpClient applied to a sequence of options.           *)
(***************************************************************************)

MaxOpts == 4

\* The keys of the caller: two variables that hold equal keys, and one that
\* holds another key.
CallerKeys ==
    {[isNil |-> FALSE, at |-> 1, v |-> GenerateKey(<< <<3>> >>).val],
     [isNil |-> FALSE, at |-> 2, v |-> GenerateKey(<< <<3>> >>).val],
     [isNil |-> FALSE, at |-> 3, v |-> GenerateKey(<< <<5>> >>).val]}

\* The options given to NewHttpClient.  The raw text "" given to Broker is
\* a URI url.Parse accepts: the broker is an empty URL, not nil.
Options ==
    {IsRequesterOpt, IsResponderOpt}
    \cup {BrokerOpt(u) : u \in {BrokerUrl, BadUri, EmptyUri}}
    \cup {NameOpt(n) : n \in {<<>>, <<19, 30>>}}
    \cup {TokenOpt(t) : t \in {ShortToken, ExactToken, LongToken}}
    \cup {KeyOpt(k) : k \in {NilKey} \cup CallerKeys}
OptionLists == UNION {[1..n -> Options] : n \in 0..MaxOpts}

\* call = NewHttpClient(opts...).
NewHttpClientOf(opts) ==
    /\ call = NoCall
    /\ LET r == NewHttpClient(ApplyOpts(opts, ZeroConf))
       IN call' = [op |-> "NewHttpClient", arg |-> opts, val |-> r.val, panic |-> r.panic]
    /\ UNCHANGED <<cl, pc, dial, gap, conns, bodies, fs, keys, peers, lg>>

ConfNext ==
    \/ call = NoCall /\ \E opts \in OptionLists : NewHttpClientOf(opts)
    \/ Return

ConfInit ==
    /\ Init
    /\ cl = NewHttpClient(CHOOSE c \in Confs : TRUE).val

ConfSpec == ConfInit /\ [][ConfNext]_vars

(***************************************************************************)
(* Options applied one after the other to one conf, as applyTest does:     *)
(* call holds the options applied so far, the conf and the conf before the *)
(* last option.                                                            *)
(***************************************************************************)

MaxApplied == 3

\* The options applied so far and the conf they have made of new(conf).
Applied == IF call = NoCall THEN <<>> ELSE call.arg
AppliedConf == IF call = NoCall THEN ZeroConf ELSE call.val

\* A variant of applyTestStep in which an option is applied to a new conf.
applyTestStepAnew(o) ==
    /\ Len(Applied) < MaxApplied
    /\ call' = [op |-> "applyTest", arg |-> Append(Applied, o),
                val |-> ApplyOpt(o, ZeroConf), before |-> AppliedConf]
    /\ UNCHANGED <<cl, pc, dial, gap, conns, bodies, fs, keys, peers, lg>>

\* One turn of the loop of applyTest: o(c).
applyTestStep(o) ==
    /\ Len(Applied) < MaxApplied
    /\ call' = [op |-> "applyTest", arg |-> Append(Applied, o),
                val |-> ApplyOpt(o, AppliedConf), before |-> AppliedConf]
    /\ UNCHANGED <<cl, pc, dial, gap, conns, bodies, fs, keys, peers, lg>>

OptNext == \E o \in Options : applyTestStep(o)

OptInit ==
    /\ Init
    /\ cl = NewHttpClient(CHOOSE c \in Confs : TRUE).val

OptSpec == OptInit /\ [][OptNext]_vars

(***************************************************************************)
(* The loggers of package log, used by one goroutine and by two.           *)
(***************************************************************************)

LogInit ==
    /\ Init
    /\ cl = NewHttpClient(CHOOSE c \in Confs : TRUE).val

LogSpec == LogInit /\ [][LogNext]_vars

GoSpec == LogInit /\ [][GoNext]_vars

ChanInit ==
    /\ cl = NewHttpClient(CHOOSE c \in Confs : TRUE).val
    /\ pc = "idle"
    /\ dial = NoDial
    /\ gap = FALSE
    /\ conns = {}
    /\ bodies = 0
    /\ fs = <<>>
    /\ keys = [s \in {"A", "B"} |-> NoKey]
    /\ call = NoCall
    /\ peers = NewPeers
    /\ lg = NewChanLog

ChanSpec == ChanInit /\ [][ChanNext]_vars

\* The goroutines are scheduled: a goroutine that can take a step of its
\* logging call takes it, the Write of the output returns, and a goroutine
\* that waits in Lock gets the mutex if it is free again and again
\* (sync.Mutex hands the mutex to a waiter that has waited long).
GoFairness ==
    \A t \in Threads :
        /\ SF_vars(writeBuf(t))
        /\ WF_vars(write(t))
        /\ WF_vars(WriteTo(t))
        /\ WF_vars(WriteReturn(t))
        /\ WF_vars(writeBufReturn(t))

GoFairSpec == GoSpec /\ GoFairness

(***************************************************************************)
(* Properties                                                              *)
(***************************************************************************)

\* The position of the first event ev in es (0 when there is none).
First(es, ev) ==
    IF Count(es, ev) = 0 THEN 0
    ELSE CHOOSE i \in 1..Len(es) : es[i] = ev /\ \A j \in 1..(i - 1) : es[j] # ev

\* The errors of Dial that come from the network or from the broker.
NetworkErrors == {"Error connecting to address", "unknown message encoder",
                  "unable to parse server key", "unable to parse websocket url",
                  "unable to connect to websocket"}

\* C1: when the dsResp of a Dial names a format that was not registered on
\* the client when the Dial started, the Dial returns the unknown-encoder
\* error, never issues the websocket dial and neither opens nor stores a
\* transport.
C1_UnadvertisedEncodingFails ==
    (dial.got /\ dial.conf.Format \notin dial.adv) =>
        /\ pc = "idle"
        /\ dial.ret = "unknown message encoder"
        /\ Count(dial.steps, "wsDial") = 0
        /\ cl.wsClient = dial.ws0
        /\ dial.n \notin conns

C1_Witness ==
    /\ dial.got
    /\ dial.adv # {}
    /\ dial.conf.Format \notin dial.adv
    /\ dial.ret = "unknown message encoder"

\* C2: in every Dial the websocket dial is issued only after, in this
\* order, the POST returned a response, the response was decoded, its
\* format was accepted and its tempKey was decoded; and then the decoded
\* format is one of the registered ones and the tempKey does decode.
C2_UpgradeAfterHandshake ==
    \A i \in 1..Len(dial.steps) :
        dial.steps[i] = "wsDial" =>
            /\ 0 < First(dial.steps, "post")
            /\ First(dial.steps, "post") < First(dial.steps, "response")
            /\ First(dial.steps, "response") < First(dial.steps, "parsed")
            /\ First(dial.steps, "parsed") < First(dial.steps, "encoder")
            /\ First(dial.steps, "encoder") < First(dial.steps, "tempKey")
            /\ First(dial.steps, "tempKey") < i
            /\ dial.got
            /\ dial.conf.Format \in dial.adv
            /\ UnmarshalPublic(dial.conf.TempKey).err = "nil"

C2_Witness ==
    /\ pc = "ws"
    /\ dial.steps[Len(dial.steps)] = "wsDial"
    /\ dial.n = 2

\* C4: the auth parameter of the upgrade URL of a Dial is the hash of the
\* salt of this Dial's dsResp followed by the X coordinate of the client's
\* scalar times the point decoded from this Dial's tempKey.
C4_AuthRecomputed ==
    Count(dial.steps, "wsDial") > 0 =>
        LET pt     == UnmarshalPublic(dial.conf.TempKey).val
            secret == BigBytes(PointMul([X |-> pt.X, Y |-> pt.Y],
                                        SetBytes(cl.privKey.v.D)).X)
            auth   == QueryGet(dial.u.RawQuery, "auth")
        IN /\ Len(auth) = 1
           /\ auth[1].v = [pre |-> <<>>, sum |-> [sha256 |-> dial.conf.Salt \o secret]]

\* A second Dial that dials the upgrade with a salt and a tempKey other
\* than those of the Dial before would.
C4_Witness ==
    /\ dial.n = 2
    /\ dial.prev = "unable to connect to websocket"
    /\ Count(dial.steps, "wsDial") > 0
    /\ dial.conf.Salt = <<49>>
    /\ Len(QueryGet(dial.u.RawQuery, "auth")) = 1

\* C6: a Dial called with no codec registered returns the no-codecs error
\* without posting the handshake request or dialling the websocket.
C6_NoCodecsNoNetwork ==
    (dial.n > 0 /\ dial.adv = {}) =>
        /\ pc = "idle"
        /\ dial.ret = "no codecs to connect to remote server with"
        /\ dial.steps = <<>>
        /\ dial.req = NoRequest

C6_Witness ==
    /\ dial.n > 0
    /\ dial.adv = {}
    /\ dial.ret = "no codecs to connect to remote server with"

\* C7: when Dial has returned an error the client holds no transport of
\* this Dial, none was opened by it, no response body is open and no file
\* was written.
C7_NoPartialState ==
    (pc = "idle" /\ dial.n > 0 /\ dial.ret # "nil") =>
        /\ cl.wsClient = dial.ws0
        /\ cl.wsClient # dial.n
        /\ dial.n \notin conns
        /\ bodies = 0
        /\ fs = <<>>

C7_Witness ==
    /\ pc = "idle"
    /\ dial.ret \notin {"nil", "none"}
    /\ Count(dial.steps, "response") = 1
    /\ Count(dial.steps, "close") = 1
    /\ bodies = 0

\* C8: a Dial posts at most once and dials the websocket at most once, and
\* once a step of it has failed it issues no network operation and has
\* returned an error.
C8_NoRetry ==
    /\ Count(dial.steps, "post") <= 1
    /\ Count(dial.steps, "wsDial") <= 1
    /\ \A i \in 1..Len(dial.steps) :
           dial.steps[i] = "error" =>
               /\ \A j \in (i + 1)..Len(dial.steps) :
                      dial.steps[j] \notin {"post", "wsDial", "open"}
               /\ pc = "idle"
               /\ dial.ret \notin {"nil", "running", "none"}

C8_Witness ==
    /\ Count(dial.steps, "post") = 1
    /\ Count(dial.steps, "wsDial") = 1
    /\ Count(dial.steps, "error") = 1
    /\ pc = "idle"

\* C9: a Dial that follows, with no call in between, a Dial that failed on
\* the network or on the broker's answer posts the handshake request again.
C9_FailedDialRecoverable ==
    (dial.n > 1 /\ dial.prev \in NetworkErrors /\ ~dial.gap) =>
        Count(dial.steps, "post") = 1

\* A slot holds a key returned without error.
HasKey(s) == keys[s].op # "none" /\ keys[s].err = "nil"

\* C3: for the keys of the two slots, each returned without error by
\* GenerateKey or Unmarshal, the shared secret of A's scalar and B's point
\* is that of B's scalar and A's point, and so is its salted hash.
C3_SharedSecretSymmetric ==
    (HasKey("A") /\ HasKey("B")) =>
        /\ GenerateSharedSecret(keys["A"].val, keys["B"].val.PublicKey)
             = GenerateSharedSecret(keys["B"].val, keys["A"].val.PublicKey)
        /\ \A salt \in Salts :
               HashSalt(salt, GenerateSharedSecret(keys["A"].val, keys["B"].val.PublicKey))
                 = HashSalt(salt, GenerateSharedSecret(keys["B"].val, keys["A"].val.PublicKey))

\* C5: the public key of every key returned without error by GenerateKey
\* or Unmarshal is the base point times the key's scalar.
C5_PublicKeyDerived ==
    \A s \in {"A", "B"} :
        HasKey(s) =>
            /\ keys[s].val.PublicKey.X = ScalarBaseMult(keys[s].val.D).X
            /\ keys[s].val.PublicKey.Y = ScalarBaseMult(keys[s].val.D).Y

C11_ScalarFieldRederivesPublic ==
    \A s \in {"A", "B"} :
        ( /\ HasKey(Other(s))
          /\ keys[s].op = "Unmarshal"
          /\ keys[s].arg = Split(Marshal(keys[Other(s)].val).val)[1] )
        => /\ keys[s].err = "nil"
           /\ Base64(keys[s].val.PublicKey) = Base64(keys[Other(s)].val.PublicKey)

\* C12: Unmarshal of a text whose number of fields is neither 1 nor 2
\* returns the error of a malformed key whatever the fields are, and
\* Unmarshal of a text of one or two fields of which one is not base64url
\* returns the error of the base64url decoder.
C12_FieldCountAndEncodingErrors ==
    call.op = "Unmarshal" =>
        LET fields == Split(call.arg)
        IN /\ Len(fields) \notin {1, 2} =>
                  call.err = "too many sections to unmarshal."
           /\ ( /\ Len(fields) \in {1, 2}
                /\ \E i \in 1..Len(fields) : DecodeString(fields[i]).err # "nil" )
              => call.err = "CorruptInputError"

\* C13: the key Unmarshal returns with an error has no scalar and no point,
\* and the public key UnmarshalPublic returns with an error has no point.
C13_NoPartialKey ==
    /\ (call.op = "Unmarshal" /\ call.err # "nil") =>
           /\ call.val.D = <<>>
           /\ call.val.PublicKey.Curve = "nil"
           /\ call.val.PublicKey.X = NilInt
           /\ call.val.PublicKey.Y = NilInt
    /\ (call.op = "UnmarshalPublic" /\ call.err # "nil") =>
           /\ call.val.Curve = "nil"
           /\ call.val.X = NilInt
           /\ call.val.Y = NilInt

\* Unmarshal has decoded a scalar and has then failed on the point.
C13_Witness ==
    /\ call.op = "Unmarshal"
    /\ Len(Split(call.arg)) = 2
    /\ DecodeString(Split(call.arg)[1]).err = "nil"
    /\ DecodeString(Split(call.arg)[1]).val # <<>>
    /\ call.err = "unmashaled values are nil"

\* C14: the key Unmarshal or LoadKey returns without error has a scalar that
\* is not empty and a public point that is a point of the curve other than
\* the identity.
C14_NoSilentZeroKey ==
    (call.op \in {"Unmarshal", "LoadKey"} /\ call.err = "nil") =>
        /\ call.val.D # <<>>
        /\ [X |-> call.val.PublicKey.X, Y |-> call.val.PublicKey.Y] \in CurvePoints

\* C15: the public key UnmarshalPublic returns without error, and that of
\* the key Unmarshal returns without error for a text of two fields, is a
\* point of the curve; UnmarshalPublic of the base64url of bytes that are
\* not the uncompressed form of a point of the curve returns an error.
C15_DecodedPointOnCurve ==
    /\ (call.op = "UnmarshalPublic" /\ call.err = "nil") =>
           [X |-> call.val.X, Y |-> call.val.Y] \in CurvePoints
    /\ ( /\ call.op = "UnmarshalPublic"
         /\ DecodeString(call.arg).err = "nil"
         /\ DecodeString(call.arg).val
                \notin {<<4>> \o FixedBytes(pt.X, ByteLen) \o FixedBytes(pt.Y, ByteLen) :
                            pt \in CurvePoints} )
       => call.err = "unmashaled values are nil"
    /\ (call.op = "Unmarshal" /\ call.err = "nil" /\ Len(Split(call.arg)) = 2) =>
           [X |-> call.val.PublicKey.X, Y |-> call.val.PublicKey.Y] \in CurvePoints

\* UnmarshalPublic has rejected the uncompressed form of the all-zero pair.
C15_Witness ==
    /\ call.op = "UnmarshalPublic"
    /\ DecodeString(call.arg).val = <<4>> \o FixedBytes(0, ByteLen) \o FixedBytes(0, ByteLen)
    /\ call.err = "unmashaled values are nil"

\* C16: VerifyDsId of a public key is true for the dsid of that key
\* whatever the prefix, and false for the Hash64 of that key followed by
\* "x".
C16_VerifyDsIdSuffix ==
    call.op = "VerifyDsId" =>
        /\ (\E prefix \in Prefixes : call.arg = DsId(call.pub, prefix)) => call.val
        /\ (call.arg = Concat(Hash64(call.pub), <<49>>)) => ~call.val

\* VerifyDsId has accepted a dsid with a prefix that is not empty.
C16_Witness ==
    /\ call.op = "VerifyDsId"
    /\ call.arg = DsId(call.pub, <<37, 34, 39, 36, 62>>)
    /\ call.val

\* C18: a client constructed from a configuration whose token has at least
\* TokenLen characters holds the first TokenLen characters of it and the
\* HashToken of its dsId and these characters; one constructed from a
\* configuration with a shorter token holds an empty token and an empty
\* token hash, and the shorter token does not make the construction panic.
C18_TokenNormalised ==
    call.op = "NewHttpClient" =>
        LET c == ApplyOpts(call.arg, ZeroConf)
        IN /\ (call.panic = "nil" /\ Len(c.token) >= 16) =>
                  /\ call.val.token = SubSeq(c.token, 1, 16)
                  /\ call.val.tHash = << HashToken(call.val.dsId, SubSeq(c.token, 1, 16)) >>
           /\ (call.panic = "nil" /\ Len(c.token) < 16) =>
                  /\ call.val.token = <<>>
                  /\ call.val.tHash = <<>>
           /\ (c.broker.ok /\ c.name # <<>> /\ ~c.key.isNil) => call.panic = "nil"

\* A client has been constructed with a token of exactly 16 characters.
C18_Witness ==
    /\ call.op = "NewHttpClient"
    /\ call.panic = "nil"
    /\ Len(ApplyOpts(call.arg, ZeroConf).token) = 16
    /\ Len(call.val.token) = 16
    /\ call.val.tHash # <<>>

\* The position of the last option of a kind in a sequence of options (0
\* when there is none).
LastOpt(opts, kind) ==
    IF \A i \in 1..Len(opts) : opts[i].opt # kind THEN 0
    ELSE CHOOSE i \in 1..Len(opts) :
             opts[i].opt = kind /\ \A j \in (i + 1)..Len(opts) : opts[j].opt # kind

\* C20: NewHttpClient panics and returns no client when its options leave
\* it without a broker URL (no Broker option, or the last one with a URI
\* that does not parse), with an empty name or with a nil key, whatever the
\* other options and the order; it returns a client when the three are
\* there; in both cases nothing has gone to the network.
C20_ConstructionFailsFast ==
    call.op = "NewHttpClient" =>
        LET b == LastOpt(call.arg, "Broker")
            n == LastOpt(call.arg, "Name")
            k == LastOpt(call.arg, "Key")
            missing == \/ b = 0 \/ ~call.arg[b].uri.ok
                       \/ n = 0 \/ call.arg[n].text = <<>>
                       \/ k = 0 \/ call.arg[k].key.isNil
        IN /\ missing => (call.panic # "nil" /\ call.val = "nil")
           /\ ~missing => call.panic = "nil"
           /\ conns = {} /\ bodies = 0 /\ pc = "idle" /\ dial = NoDial

\* NewHttpClient has panicked on a nil key that follows a broker, a name
\* and a key.
C20_Witness ==
    /\ call.op = "NewHttpClient"
    /\ call.panic = "cannot create httpClient without a private key"
    /\ LastOpt(call.arg, "Broker") # 0
    /\ LastOpt(call.arg, "Name") # 0
    /\ \E i \in 1..Len(call.arg) : call.arg[i].opt = "Key" /\ ~call.arg[i].key.isNil

\* C19: the upgrade URL of a Dial has an auth parameter that is the hash of
\* the salt and the shared secret of this Dial, an encoder parameter that
\* is the format of the dsResp, a dsId parameter that is the client's dsId,
\* and, beside the parameters the wsUri came with, a token parameter that
\* is the client's 16-character token followed by its token hash exactly
\* when the client was constructed with a token of 16 characters or more.
C19_UpgradeParameters ==
    Count(dial.steps, "wsDial") > 0 =>
        LET q      == dial.u.RawQuery
            auth   == HashSalt(dial.conf.Salt,
                               GenerateSharedSecret(cl.privKey.v,
                                                    UnmarshalPublic(dial.conf.TempKey).val))
            tokVal == [pre |-> cl.token, sum |-> HashToken(cl.dsId, cl.token).sum]
            given  == Len(cl.token) = 16
        IN /\ \E i \in 1..Len(q) : q[i].k = "auth" /\ q[i].v = auth
           /\ \E i \in 1..Len(q) : q[i].k = "encoder" /\ q[i].v = dial.conf.Format
           /\ \E i \in 1..Len(q) : q[i].k = "dsId" /\ q[i].v = cl.dsId
           /\ given <=> \E i \in 1..Len(q) : q[i].k = "token" /\ q[i].v = tokVal
           /\ Len(QueryGet(q, "token"))
                = Len(QueryGet(dial.conf.WsUri.RawQuery, "token")) + (IF given THEN 1 ELSE 0)

\* An upgrade URL with the token parameter of a client that has a token.
C19_Witness ==
    /\ Count(dial.steps, "wsDial") > 0
    /\ Len(cl.token) = 16
    /\ \E i \in 1..Len(dial.u.RawQuery) :
           /\ dial.u.RawQuery[i].k = "token"
           /\ dial.u.RawQuery[i].v.pre = cl.token
           /\ dial.u.RawQuery[i].v.sum = cl.tHash[1].sum

\* C21: LoadKey of a path that names the file a SaveKey has just written
\* without error (the empty path names the default key file for both)
\* returns no error and a key whose Marshal text is that of the key saved.
C21_SaveLoadRoundTrip ==
    (call.op = "LoadSaved" /\ FileOf(call.arg) = FileOf(call.at)) =>
        /\ call.err = "nil"
        /\ Marshal(call.val).val = Marshal(call.saved).val

\* C22: when SaveKey returns an error, the file of its path is as it was
\* before the call: absent if it was absent, with its prior text otherwise.
C22_SaveKeyFailureKeepsFile ==
    (call.op = "SaveKey" /\ call.err # "nil") =>
        /\ FileOf(call.arg) \in DOMAIN fs <=> call.prior # <<>>
        /\ call.prior # <<>> => fs[FileOf(call.arg)] = call.prior[1]

\* C23: in every interleaving of the steps of the two clients that share a
\* key, the key is the one they were constructed with, and the auth
\* parameter of an upgrade URL a client has built is the hash of the salt of
\* its own dsResp and the secret of that key and the tempKey of its own
\* dsResp.
C23_SharedKeyReadOnly ==
    /\ peers.heap.key = SharedKey
    /\ \A i \in 1..2 :
           Count(peers.c[i].steps, "wsDial") > 0 =>
               LET pt     == UnmarshalPublic(peers.c[i].conf.TempKey).val
                   secret == BigBytes(PointMul([X |-> pt.X, Y |-> pt.Y],
                                               SetBytes(SharedKey.D)).X)
                   auth   == QueryGet(peers.c[i].u.RawQuery, "auth")
               IN /\ Len(auth) = 1
                  /\ auth[1].v = [pre |-> <<>>,
                                  sum |-> [sha256 |-> peers.c[i].conf.Salt \o secret]]

\* One client has connected with the key and the other has built its
\* upgrade URL, for another tempKey, in a step after that.
C23_Witness ==
    /\ peers.c[1].cl.wsClient # 0
    /\ peers.last = 2
    /\ peers.c[2].pc = "ws"
    /\ peers.c[2].conf.TempKey # peers.c[1].conf.TempKey

\* The fields of client i of p, read through its pointers, and the outcome
\* of its last Dial.
PeerFields(p, i) ==
    [codecs   |-> PeerView(p, i).codecs,
     encoder  |-> PeerView(p, i).encoder,
     wsClient |-> PeerView(p, i).wsClient,
     token    |-> PeerView(p, i).token,
     tHash    |-> PeerView(p, i).tHash,
     dsId     |-> PeerView(p, i).dsId,
     ret      |-> p.c[i].ret]

\* C24: a step of one of the two clients leaves the registered codecs, the
\* chosen encoder, the transport handle, the token, the dsId and the Dial
\* outcome of the other client as they were.
C24_ClientsIndependent ==
    [][\A i \in 1..2 : peers'.last # i => PeerFields(peers', i) = PeerFields(peers, i)]_vars

\* Both clients have registered both encoders, one has connected with
\* msgpack and the other has then failed on the broker's key.
C24_Witness ==
    /\ peers.c[1].cl.wsClient # 0
    /\ PeerView(peers, 1).encoder = MsgpCodec
    /\ peers.last = 2
    /\ peers.c[2].ret = "unable to parse server key"
    /\ PeerView(peers, 2).encoder = JsonCodec

\* C25: after a sequence of Codec calls on a client that has not dialled,
\* the format names of the registry are those of the encoders given, each
\* name has the encoder given last under it, and the registry has as many
\* entries as there are names.
C25_RegistryLastWins ==
    call.op = "Codec" =>
        LET h     == call.arg
            names == {h[i].Format : i \in 1..Len(h)}
        IN /\ {e.Format : e \in cl.codecs} = names
           /\ Cardinality(cl.codecs) = Cardinality(names)
           /\ \A e \in cl.codecs :
                  \E i \in 1..Len(h) :
                      /\ h[i] = e
                      /\ \A j \in (i + 1)..Len(h) : h[j].Format # e.Format

\* Two encoders were given under "json" and one under another name: the
\* registry has two entries and "json" has the second encoder.
C25_Witness ==
    /\ call.op = "Codec"
    /\ call.arg = <<JsonCodec, UserCodec, MsgpCodec>>
    /\ cl.codecs = {UserCodec, MsgpCodec}

\* C26: a constructed client is a responder exactly when IsResponder was
\* among its options and a requester exactly when IsRequester was, its
\* rawUrl is the parsed URI of the last Broker option, its privKey is the
\* pointer the last Key option was given (the same address, not a copy)
\* and its dsId is the DsId of that key and the name of the last Name
\* option.
C26_ClientReflectsOptions ==
    (call.op = "NewHttpClient" /\ call.panic = "nil") =>
        LET opts == call.arg
            b == LastOpt(opts, "Broker")
            n == LastOpt(opts, "Name")
            k == LastOpt(opts, "Key")
        IN /\ call.val.responder = (LastOpt(opts, "IsResponder") # 0)
           /\ call.val.requester = (LastOpt(opts, "IsRequester") # 0)
           /\ b # 0 /\ call.val.rawUrl = UrlParse(opts[b].uri).val
           /\ k # 0 /\ call.val.privKey = opts[k].key
           /\ call.val.privKey.at = opts[k].key.at
           /\ n # 0 /\ call.val.dsId = DsId(opts[k].key.v.PublicKey, opts[n].text)

\* A client was constructed as in TestNewHttpClient, a responder and not a
\* requester, and holds the address of the caller's second variable, which
\* holds a key equal to that of the first.
C26_Witness ==
    /\ call.op = "NewHttpClient"
    /\ call.panic = "nil"
    /\ Len(call.arg) = 4
    /\ call.arg[1] = IsResponderOpt
    /\ call.arg[4].opt = "Key"
    /\ call.val.responder /\ ~call.val.requester
    /\ call.val.privKey.at = 2
    /\ call.val.rawUrl = BrokerUrl

\* The field of the conf an option is for.
FieldOf(o) ==
    IF o.opt = "IsRequester" THEN "isReq"
    ELSE IF o.opt = "IsResponder" THEN "isResp"
    ELSE IF o.opt = "Broker" THEN "broker"
    ELSE IF o.opt = "Name" THEN "name"
    ELSE IF o.opt = "Token" THEN "token"
    ELSE "key"

\* The permutations of 1..n.
Perms(n) == {f \in [1..n -> 1..n] : \A i, j \in 1..n : f[i] = f[j] => i = j}

\* C27: an option applied to a conf leaves every field but its own as it
\* was; options for pairwise distinct fields make the same conf of a new
\* conf in every order; and a flag option applied a second time leaves the
\* conf as the first application made it.
C27_OptionsFrame ==
    call.op = "applyTest" =>
        LET opts == call.arg
            n    == Len(opts)
            o    == opts[n]
        IN /\ \A g \in DOMAIN ZeroConf \ {FieldOf(o)} :
                  call.val[g] = call.before[g]
           /\ (\A i, j \in 1..n : opts[i].opt = opts[j].opt => i = j) =>
                  \A f \in Perms(n) :
                      ApplyOpts([i \in 1..n |-> opts[f[i]]], ZeroConf) = call.val
           /\ (n > 1 /\ opts[n - 1] = o /\ o.opt \in {"IsRequester", "IsResponder"}) =>
                  call.val = call.before

\* Three options for distinct fields have been applied, the last to a conf
\* that had two fields set.
C27_Witness ==
    /\ call.op = "applyTest"
    /\ Len(call.arg) = 3
    /\ call.arg[1].opt = "Name" /\ call.arg[2].opt = "IsResponder" /\ call.arg[3].opt = "Key"
    /\ call.before.name # <<>> /\ call.before.isResp
    /\ call.val.name = call.before.name /\ ~call.val.key.isNil

\* A goroutine enters a logging call in this step, and the call is
\* discarded exactly when the current level of the package is above the
\* level of the call.
LevelDecides ==
    \A t \in Threads :
        (lg.th[t].pc = "idle" /\ lg'.th[t].pc # "idle") =>
            /\ lg'.th[t].pc \in {"discarded", "writeBuf"}
            /\ lg'.th[t].pc = "discarded" <=> lg.currentLevel > lg'.th[t].lvl
            /\ lg.currentLevel = DisabledLevel => lg'.th[t].pc = "discarded"

\* C28 as stated: a logging call on any logger is discarded exactly when
\* the current level is above its level at the time of the call, a
\* discarded call has made no Write call on the output, and every other
\* call has made one when it is over.
C28_WrittenIffLevelAllows ==
    /\ [][LevelDecides]_vars
    /\ [](\A t \in Threads :
             /\ lg.th[t].pc = "discarded" => lg.th[t].writes = 0
             /\ lg.th[t].pc \in {"returned", "panicked"} => lg.th[t].writes = 1)

\* C28: a logging call on any logger is discarded exactly when the current
\* level is above its level at the time of the call, and nothing is
\* written at any level when the level is DisabledLevel; a discarded call
\* has made no Write call, a call that was not discarded and has returned
\* has made one, and a call that was not discarded panics without a Write
\* call only when the rootLogger has no output.
C28_LevelFilter ==
    /\ [][LevelDecides]_vars
    /\ [][\A t \in Threads :
             (lg.th[t].pc # "panic" /\ lg'.th[t].pc = "panic") =>
                 lg.loggers[rootLogger].out = NilWriter]_vars
    /\ [](\A t \in Threads :
             /\ lg.th[t].pc \in {"discarded", "panicked"} => lg.th[t].writes = 0
             /\ lg.th[t].pc = "returned" => lg.th[t].writes = 1)

\* A Debug call on the third logger has returned after one Write call
\* while the level is DebugLevel.
C28_Witness ==
    /\ lg.th[1].pc = "returned"
    /\ lg.th[1].l = 3
    /\ lg.th[1].lvl = DebugLevel
    /\ lg.th[1].writes = 1
    /\ lg.currentLevel = DebugLevel

\* C29: whatever the interleaving of the logging calls of the goroutines
\* on the loggers of the hierarchy, at most one goroutine is in a Write
\* call on a writer at a time, no logging call makes more than one Write
\* call, and a call that was not discarded has made exactly one when it
\* returns.
C29_WritesSerialised ==
    /\ Cardinality({t \in Threads : lg.th[t].pc = "Write"}) <= 1
    /\ \A t \in Threads :
          /\ lg.th[t].writes <= 1
          /\ lg.th[t].pc \in {"Write", "return", "returned"} <=> lg.th[t].writes = 1

\* One goroutine is in its Write call for a call on the third logger while
\* the other, in a call on the second, waits for the mutex of the
\* rootLogger.
C29_Witness ==
    /\ lg.th[1].pc = "Write" /\ lg.th[1].l = 3
    /\ lg.th[2].pc = "writeBuf" /\ lg.th[2].l = 2 /\ lg.th[2].cur = rootLogger
    /\ lg.loggers[rootLogger].mu = 1

RECURSIVE PrefixChain(_, _)
\* The prefixes of a logger and its ancestors in brackets, from the root.
PrefixChain(loggers, l) ==
    IF l = 0 THEN <<>>
    ELSE PrefixChain(loggers, loggers[l].parent)
             \o (IF loggers[l].prefix # "" THEN <<"[", loggers[l].prefix, "]">> ELSE <<>>)

\* C30: the line a logging call gives to Write has, after the level and
\* the time, the prefix of the rootLogger, then that of each ancestor of
\* the logger of the call, then its own, each once, and then the message
\* of the call and nothing else but the newline that ends the line.
C30_LineIsPrefixesAndMessage ==
    \A t \in Threads :
        lg.th[t].pc = "Write" =>
            LET th   == lg.th[t]
                want == PrefixChain(lg.loggers, th.l) \o <<" ">> \o th.msg
            IN SubSeq(th.b, 7, Len(th.b)) =
                   IF want[Len(want)] = "\n" THEN want ELSE Append(want, "\n")

\* The outcomes of a Dial in which connectWs accepted the chosen format.
AfterAccept == {"nil", "unable to parse server key", "unable to parse websocket url",
                "unable to connect to websocket"}

\* C32: in the step in which connectWs accepts the chosen format the
\* encoder becomes the codec registered under that name and the registry
\* becomes empty; both stay so to the end of the Dial whatever it returns;
\* when Dial has returned nil the Format of the encoder is the encoder
\* parameter of the upgrade URL; and a Dial that follows, with no Codec
\* call in between, a Dial that accepted the format returns the no-codecs
\* error without a request.
C32_AcceptSetsEncoderAndEmpties ==
    /\ [][(Count(dial.steps, "encoder") = 0 /\ Count(dial'.steps, "encoder") > 0) =>
             /\ cl'.encoder \in cl.codecs
             /\ cl'.encoder.Format = dial'.conf.Format
             /\ cl'.codecs = {}]_vars
    /\ []((Count(dial.steps, "encoder") > 0 /\ ~gap) =>
             /\ cl.codecs = {}
             /\ cl.encoder.Format = dial.conf.Format
             /\ dial.ret \in AfterAccept \cup {"running"})
    /\ [](dial.ret = "nil" =>
             /\ cl.encoder # NilEncoder
             /\ QueryGet(dial.u.RawQuery, "encoder")
                  = << [k |-> "encoder", v |-> cl.encoder.Format] >>)
    /\ []((dial.n > 1 /\ ~dial.gap /\ dial.prev \in AfterAccept) =>
             /\ dial.ret = "no codecs to connect to remote server with"
             /\ dial.steps = <<>>
             /\ dial.req = NoRequest)

\* A Dial has returned the no-codecs error right after a Dial that accepted
\* the format and then failed to dial the websocket.
C32_Witness ==
    /\ dial.n = 2
    /\ ~dial.gap
    /\ dial.prev = "unable to connect to websocket"
    /\ dial.ret = "no codecs to connect to remote server with"
    /\ cl.encoder # NilEncoder
    /\ cl.codecs = {}

\* The fields of the client that construction sets.
Configured(c) ==
    <<c.rawUrl, c.dsId, c.token, c.tHash, c.responder, c.requester, c.privKey>>

\* C33: no step of a Dial (nor a Codec call) changes the broker URL, the
\* dsId, the token, the token hash, the role flags or the key pointer of
\* the client, and the request of every Dial that posts goes to the
\* scheme, host and path of the broker URL with one dsId parameter, the
\* client's dsId, and at most one token parameter beside what the query of
\* the broker URL has.
C33_DialKeepsConfiguration ==
    /\ [][Configured(cl') = Configured(cl)]_vars
    /\ [](Count(dial.steps, "post") > 0 =>
             LET q  == dial.req.url.RawQuery
                 q0 == cl.rawUrl.RawQuery
             IN /\ [dial.req.url EXCEPT !.RawQuery = q0] = cl.rawUrl
                /\ Len(QueryGet(q, "dsId")) = Len(QueryGet(q0, "dsId")) + 1
                /\ \E i \in 1..Len(q) : q[i] = [k |-> "dsId", v |-> cl.dsId]
                /\ Len(QueryGet(q, "token")) <= Len(QueryGet(q0, "token")) + 1
                /\ Len(q) = Len(q0) + 1 + (IF cl.tHash # <<>> THEN 1 ELSE 0))

\* A second Dial has posted its request, with a token, after a first Dial
\* that posted and failed.
C33_Witness ==
    /\ dial.n = 2
    /\ dial.prev = "Error connecting to address"
    /\ Count(dial.steps, "post") = 1
    /\ Len(QueryGet(dial.req.url.RawQuery, "dsId")) = 1
    /\ Len(QueryGet(dial.req.url.RawQuery, "token")) = 1

\* The values of a key that a query has beside those of the query it was
\* made from (Encode keeps the values of one key in the order of Add).
Attached(q, q0, key) ==
    SubSeq(QueryGet(q, key), Len(QueryGet(q0, key)) + 1, Len(QueryGet(q, key)))

\* C34: the dsId and token parameters a Dial attaches to the upgrade URL
\* are those it attached to the handshake request, and the dsId of the
\* handshake request verifies against the public key that the body of the
\* request announces (no step of the specification changes the key).
C34_IdentityConsistent ==
    /\ Count(dial.steps, "wsDial") > 0 =>
           \A key \in {"dsId", "token"} :
               Attached(dial.u.RawQuery, dial.conf.WsUri.RawQuery, key)
                   = Attached(dial.req.url.RawQuery, cl.rawUrl.RawQuery, key)
    /\ Count(dial.steps, "post") > 0 =>
           LET pub == UnmarshalPublic(dial.req.body.publicKey)
               ids == Attached(dial.req.url.RawQuery, cl.rawUrl.RawQuery, "dsId")
           IN /\ pub.err = "nil"
              /\ Len(ids) = 1
              /\ VerifyDsId(pub.val, ids[1].v)

\* An upgrade URL made from a wsUri that has a token parameter of its own,
\* for a client that has a token.
C34_Witness ==
    /\ Count(dial.steps, "wsDial") > 0
    /\ Len(QueryGet(dial.conf.WsUri.RawQuery, "token")) = 1
    /\ Len(Attached(dial.u.RawQuery, dial.conf.WsUri.RawQuery, "token")) = 1
    /\ Len(Attached(dial.u.RawQuery, dial.conf.WsUri.RawQuery, "dsId")) = 1

\* C35: the URL of every websocket dial, and of every transport opened, has
\* the scheme ws, whatever scheme the wsUri of the broker has, and keeps
\* the host and the path of the wsUri.
C35_UpgradeSchemeIsWs ==
    Count(dial.steps, "wsDial") > 0 =>
        /\ dial.u.Scheme = "ws"
        /\ dial.u.Host = dial.conf.WsUri.Host
        /\ dial.u.Path = dial.conf.WsUri.Path

\* A transport opened for a broker that supplied a wss URI.
C35_Witness ==
    /\ Count(dial.steps, "open") > 0
    /\ dial.conf.WsUri.Scheme = "wss"
    /\ dial.u.Scheme = "ws"

\* C36: no step clears the transport handle or closes a transport; the
\* handle changes only in the step that opens a transport, which makes the
\* Dial return nil, adds one open transport and sets the handle to it; a
\* Dial that fails leaves the handle as it found it; so the handle is the
\* latest transport opened and every transport opened stays open.
C36_TransportsNeverClosed ==
    /\ [][/\ conns \subseteq conns'
          /\ cl.wsClient # 0 => cl'.wsClient # 0
          /\ (dial'.ret = "nil" /\ dial.ret # "nil")
                <=> Cardinality(conns') = Cardinality(conns) + 1
          /\ (dial'.ret = "nil" /\ dial.ret # "nil")
                <=> cl'.wsClient # cl.wsClient
          /\ (dial'.ret = "nil" /\ dial.ret # "nil")
                => cl'.wsClient \in conns' \ conns]_vars
    /\ []((dial.n > 0 /\ dial.ret \notin {"nil", "running"}) =>
             cl.wsClient = dial.ws0)
    /\ [](cl.wsClient = 0 <=> conns = {})
    /\ [](cl.wsClient # 0 => /\ cl.wsClient \in conns
                             /\ \A n \in conns : n <= cl.wsClient)

\* A second Dial, after a new Codec call, failed at the websocket while the
\* transport of the first is open and still the handle of the client.
C36_Witness ==
    /\ dial.n = 2
    /\ dial.ret = "unable to connect to websocket"
    /\ conns = {1}
    /\ cl.wsClient = 1

\* A second successful Dial: two transports open, the handle is the later.
C36_Overwritten == conns = {1, 2} /\ cl.wsClient = 2

\* A goroutine is inside a logging call that was not discarded.
InCall(t) == lg.th[t].pc \in {"writeBuf", "write", "WriteTo", "Write", "return", "panic"}

\* A goroutine inside a logging call can take its next step: it does not
\* wait in Lock for a mutex that is held.
CanStep(t) ==
    /\ InCall(t)
    /\ lg.th[t].pc = "writeBuf" => CanLock(lg.loggers[lg.th[t].cur])

\* The mutexes a goroutine holds are those of its logger and of the
\* ancestors of it up to the one it has reached, leaf to root, and it holds
\* no other.
HoldsChain(t) ==
    LET th == lg.th[t]
    IN /\ \A k \in 1..Len(th.held) : lg.loggers[th.held[k]].mu = t
       /\ \A i \in 1..Len(lg.loggers) :
              lg.loggers[i].mu = t => \E k \in 1..Len(th.held) : th.held[k] = i
       /\ Len(th.held) > 0 => th.held[1] = th.l
       /\ \A k \in 1..(Len(th.held) - 1) :
              /\ th.held[k + 1] = lg.loggers[th.held[k]].parent
              /\ th.held[k + 1] < th.held[k]
       /\ (th.pc = "writeBuf" /\ Len(th.held) > 0) =>
              th.cur = lg.loggers[th.held[Len(th.held)]].parent
       /\ ~InCall(t) => th.held = <<>>

\* C37: the parent of a logger is fixed when New makes it and is a logger
\* made before it (the rootLogger has none); a goroutine in a logging call
\* holds the mutexes of its logger and of its ancestors in order, leaf to
\* root; whenever goroutines are inside logging calls one of them can
\* take a step; and, the goroutines being scheduled and Write returning,
\* every logging call that reaches writeBuf returns holding no mutex.
C37_NoDeadlock ==
    /\ [](\A i \in 1..Len(lg.loggers) :
             IF i = rootLogger THEN lg.loggers[i].parent = 0
             ELSE lg.loggers[i].parent \in 1..(i - 1))
    /\ [][\A i \in 1..Len(lg.loggers) :
             /\ i <= Len(lg'.loggers)
             /\ lg'.loggers[i].parent = lg.loggers[i].parent]_vars
    /\ [](\A t \in Threads : HoldsChain(t))
    /\ []((\E t \in Threads : InCall(t)) => \E t \in Threads : CanStep(t))
    /\ \A t \in Threads :
           (lg.th[t].pc = "writeBuf")
               ~> (lg.th[t].pc = "returned" /\ \A i \in 1..Len(lg.loggers) : lg.loggers[i].mu # t)

\* A goroutine waits in Lock for the mutex of an ancestor that the other
\* goroutine holds, while it holds the mutex of its own logger.
C37_Witness ==
    \E t \in Threads :
        /\ lg.th[t].pc = "writeBuf"
        /\ Len(lg.th[t].held) > 0
        /\ ~CanLock(lg.loggers[lg.th[t].cur])
        /\ lg.loggers[lg.th[t].cur].mu # t

\* The writer that is the output after k writers have been received.
OutputAfter(k) == IF k = 0 THEN Stdout ELSE lg.recv[k]

\* C31: every record printLog writes passed the level filter and is written
\* to the writer of the latest SetOutput that printLog has received, which
\* is the latest SetOutput that had returned when the record was logged
\* or one after it: never to the writer before that one.  (A SetOutput
\* returns when printLog has received its writer.)
C31_OutputAfterSetOutput ==
    /\ lg.last # NoWrite =>
           /\ lg.last.r.Level >= lg.level
           /\ lg.last.k >= lg.last.r.n
           /\ lg.last.w = OutputAfter(lg.last.k)
    /\ lg.pl.pc = "Fprint" => lg.out = OutputAfter(Len(lg.recv))
    /\ \A i \in 1..Len(lg.ch) : lg.ch[i].n <= Len(lg.recv)

\* A record logged after the second SetOutput returned, written to the
\* writer of that SetOutput, which is not the writer of the first.
C31_Witness ==
    /\ lg.recv = <<TestBuffer, Stderr>>
    /\ lg.last.r.n = 2
    /\ lg.last.k = 2
    /\ lg.last.w = Stderr

====
